---- MODULE Spec2Model ----
(***************************************************************************)
(* wowza2whep: a signaling-only WHEP gateway in front of Wowza.            *)
(*                                                                         *)
(* The model covers the HTTP router (server.go), the session manager       *)
(* (manager.go), the per-session Wowza negotiation (session.go) and the    *)
(* host allow-list (config.go).                                            *)
(*                                                                         *)
(* Strings.  A Go string is modelled as a sequence of atoms.  An atom is   *)
(* an indivisible run of bytes; every text the code searches for, splits   *)
(* on or compares with ("/", ".", ",", "*", "?", " ", "session-",          *)
(* "wowza error", "application/sdp", ...) is an atom of its own, and no    *)
(* other atom contains it, so the strings operators below are computed     *)
(* on atoms exactly as the Go ones are on bytes.                           *)
(***************************************************************************)
EXTENDS Integers, Sequences, FiniteSets, TLC

(***************************************************************************)
(* Bounds of the model.                                                    *)
(***************************************************************************)
\* number of sessions created in one run of the router specification, and
\* of session ids a client may name
MaxSessions == 2

\* number of sessions created in one run of the specifications that follow
\* every step of the negotiation
MaxCreates == 1

(***************************************************************************)
(* package strings                                                         *)
(***************************************************************************)
HasPrefix(s, p) ==
  /\ Len(s) >= Len(p)
  /\ SubSeq(s, 1, Len(p)) = p

HasSuffix(s, p) ==
  /\ Len(s) >= Len(p)
  /\ SubSeq(s, Len(s) - Len(p) + 1, Len(s)) = p

Contains(s, p) ==
  \E i \in 1..(Len(s) - Len(p) + 1) : SubSeq(s, i, i + Len(p) - 1) = p

TrimPrefix(s, p) ==
  IF HasPrefix(s, p) THEN SubSeq(s, Len(p) + 1, Len(s)) ELSE s

\* index of the first atom equal to sep, 0 if there is none
IndexOf(s, sep) ==
  IF \E i \in 1..Len(s) : s[i] = sep
  THEN CHOOSE i \in 1..Len(s) : s[i] = sep /\ \A j \in 1..(i - 1) : s[j] # sep
  ELSE 0

RECURSIVE Split(_, _)
Split(s, sep) ==
  LET i == IndexOf(s, sep) IN
  IF i = 0 THEN <<s>>
  ELSE <<SubSeq(s, 1, i - 1)>> \o Split(SubSeq(s, i + 1, Len(s)), sep)

RECURSIVE Join(_, _)
Join(parts, sep) ==
  IF Len(parts) = 0 THEN <<>>
  ELSE IF Len(parts) = 1 THEN parts[1]
  ELSE LET half == Len(parts) \div 2 IN
       Join(SubSeq(parts, 1, half), sep) \o <<sep>>
         \o Join(SubSeq(parts, half + 1, Len(parts)), sep)

\* strings.Fields: the parts between the spaces, none of them empty
Fields(s) == SelectSeq(Split(s, " "), LAMBDA part : part # <<>>)

RECURSIVE TrimSpace(_)
TrimSpace(s) ==
  IF Len(s) > 0 /\ s[1] = " " THEN TrimSpace(Tail(s))
  ELSE IF Len(s) > 0 /\ s[Len(s)] = " " THEN TrimSpace(SubSeq(s, 1, Len(s) - 1))
  ELSE s

\* the atoms that hold upper-case letters, with their lower-case forms
LowerAtom(a) ==
  CASE a = "H264" -> "h264"
    [] a = "VP8" -> "vp8"
    [] a = "EVIL" -> "evil"
    [] a = "Example" -> "example"
    [] a = "COM" -> "com"
    [] a = "Video" -> "video"
    [] OTHER -> a

ToLower(s) == [i \in 1..Len(s) |-> LowerAtom(s[i])]

\* len(s) in bytes
AtomLen(a) ==
  CASE a = "long65" -> 65
    [] a = "long254" -> 254
    [] a = "pad5000" -> 5000
    [] a = "pad65000" -> 65000
    [] a \in {"/", ".", ",", "*", "?", " ", "-", "_", "%"} -> 1
    [] OTHER -> 4

RECURSIVE ByteLen(_)
ByteLen(s) ==
  IF Len(s) = 0 THEN 0
  ELSE IF Len(s) = 1 THEN AtomLen(s[1])
  ELSE LET half == Len(s) \div 2 IN
       ByteLen(SubSeq(s, 1, half)) + ByteLen(SubSeq(s, half + 1, Len(s)))

(***************************************************************************)
(* config.go                                                               *)
(***************************************************************************)
Str(a) == <<a>>

\* "entrypoint.cloud.wowza.com"
CloudDomain == <<"entrypoint", ".", "cloud", ".", "wowza", ".", "com">>

matchHost(pattern, host) ==
  IF pattern = host THEN TRUE
  ELSE IF HasPrefix(pattern, <<"*", ".">>)
       THEN HasSuffix(host, Tail(pattern))
       ELSE FALSE

\* c is the Config, host the raw host segment of the request path
IsHostAllowed(c, host) ==
  LET allowed == TrimSpace(c.AllowedHosts) IN
  IF allowed = <<>> \/ allowed = <<"*">> THEN TRUE
  ELSE LET h == ToLower(TrimSpace(host))
           patterns == Split(allowed, ",")
       IN \E i \in 1..Len(patterns) :
            LET pattern == ToLower(TrimSpace(patterns[i])) IN
            \/ pattern = <<>>
            \/ pattern = <<"*">>
            \/ matchHost(pattern, h)

(***************************************************************************)
(* server.go: validation helpers                                           *)
(***************************************************************************)
\* atoms made of [A-Za-z0-9] only
AlnumAtoms ==
  {"whep", "cloud", "h264", "H264", "vp8", "VP8", "av1", "live", "demo",
   "abcd1234", "evil", "EVIL", "example", "Example", "wowza", "com", "COM",
   "entrypoint", "health", "stats", "static", "long65", "long254",
   "u1", "u2", "u3", "u4", "u5", "u6", "zz"}

\* the session-id prefix "session-" is made of [a-z-]
SegmentAtoms == AlnumAtoms \cup {".", "_", "-", "session-"}

HostAtoms == AlnumAtoms \cup {".", "-"}

\* pathSegmentRe = ^[A-Za-z0-9._-]{1,64}$
pathSegmentRe(seg) ==
  /\ ByteLen(seg) >= 1
  /\ ByteLen(seg) <= 64
  /\ \A i \in 1..Len(seg) : seg[i] \in SegmentAtoms

\* the error text, <<>> for nil
validatePathSegment(seg) ==
  IF seg = <<>> THEN Str("empty segment")
  ELSE IF seg = <<".">> \/ seg = <<".", ".">> THEN Str("invalid segment")
  ELSE IF ~pathSegmentRe(seg) THEN Str("invalid characters")
  ELSE <<>>

parseAppStream(urlPath) ==
  LET parts == Split(urlPath, "/")
      appName == parts[1]
      streamName == Join(Tail(parts), "/")
      streamBase == Split(streamName, "?")[1]
      none == [appName |-> <<>>, streamName |-> <<>>]
  IN IF Len(parts) < 2
     THEN none @@ [err |-> Str("format: {app}/{stream}")]
     ELSE IF validatePathSegment(appName) # <<>>
     THEN none @@ [err |-> Str("invalid app name: ") \o validatePathSegment(appName)]
     ELSE IF validatePathSegment(streamBase) # <<>>
     THEN none @@ [err |-> Str("invalid stream name: ") \o validatePathSegment(streamBase)]
     ELSE [appName |-> appName, streamName |-> streamName, err |-> <<>>]

isValidHost(host) ==
  IF host = <<>> \/ ByteLen(host) > 253 THEN FALSE
  ELSE IF \E i \in 1..Len(host) : host[i] \notin HostAtoms THEN FALSE
  ELSE IF \/ Contains(host, <<".", ".">>)
          \/ host[1] \in {".", "-"}
          \/ host[Len(host)] \in {".", "-"}
       THEN FALSE
  ELSE TRUE

(***************************************************************************)
(* server.go: requests, responses and routing                              *)
(*                                                                         *)
(* A request is [method, path, ct, body]: r.Method, r.URL.Path, the        *)
(* Content-Type header and the body.  A response is [status, msg, hdr,     *)
(* answer, active]: the status code, the text given to http.Error (<<>>    *)
(* when the handler wrote none), the set of <<header, value>> pairs, the   *)
(* SDP body of a 201 (<<>> otherwise) and the "active_sessions" of a       *)
(* /health or /stats body (-1 otherwise).                                  *)
(***************************************************************************)
StatusOK == 200
StatusCreated == 201
StatusNoContent == 204
StatusBadRequest == 400
StatusForbidden == 403
StatusNotFound == 404
StatusMethodNotAllowed == 405
StatusUnsupportedMediaType == 415
StatusInternalServerError == 500
StatusBadGateway == 502
StatusServiceUnavailable == 503

\* io.LimitReader(r.Body, 64*1024)
BodyCap == 65536

\* the headers withCORS sets on every response
CORSHeaders ==
  { <<"Access-Control-Allow-Origin", Str("*")>>,
    <<"Access-Control-Allow-Methods", Str("GET, POST, PATCH, DELETE, OPTIONS")>>,
    <<"Access-Control-Allow-Headers", Str("Content-Type, Authorization")>>,
    <<"Access-Control-Expose-Headers", Str("Location, Link, Accept-Patch")>> }

NoResp == [status |-> 0, msg |-> <<>>, hdr |-> {}, answer |-> <<>>, active |-> -1]

\* http.Error(w, msg, status)
HttpError(msg, status) ==
  [status |-> status, msg |-> msg, hdr |-> CORSHeaders, answer |-> <<>>, active |-> -1]

\* w.WriteHeader(status) with no body
WriteHeader(status) ==
  [status |-> status, msg |-> <<>>, hdr |-> CORSHeaders, answer |-> <<>>, active |-> -1]

writeWHEPOptions ==
  [status |-> StatusNoContent, msg |-> <<>>,
   hdr |-> CORSHeaders \cup
           { <<"Accept-Post", Str("application/sdp")>>,
             <<"Accept-Patch", Str("application/trickle-ice-sdpfrag")>> },
   answer |-> <<>>, active |-> -1]

\* what a handler decided before it touches the manager:
\*   "resp"      it wrote the response resp;
\*   "create"    it calls handleCreate(appName, streamName, wsURL);
\*   "sessionOp" it calls handleSessionOp(sessionID).
Routed(kind, resp, appName, streamName, wsURL, sessionID) ==
  [kind |-> kind, resp |-> resp, appName |-> appName, streamName |-> streamName,
   wsURL |-> wsURL, sessionID |-> sessionID]

RespOut(resp) == Routed("resp", resp, <<>>, <<>>, <<>>, <<>>)

StaticFormat == Str("format: /whep/{codec}/{app}/{stream} where codec is h264 or vp8")

CloudFormat ==
  Str("format: /whep/cloud/{codec}/{host}/{app}/{stream} where codec is h264 or vp8")

\* the method switch that ends handleWHEP and handleWHEPCloud
methodSwitch(r, appName, streamName, wsURL) ==
  CASE r.method = "POST" -> Routed("create", NoResp, appName, streamName, wsURL, <<>>)
    [] r.method = "OPTIONS" -> RespOut(writeWHEPOptions)
    [] OTHER -> RespOut(HttpError(Str("method not allowed"), StatusMethodNotAllowed))

NotConfigured ==
  Str("websocket URL not configured - use /whep/cloud/ or start with -websocket flag")

\* Static mode: /whep/{codec}/{app}/{stream}
handleWHEP(c, r) ==
  IF c.WowzaWSURL = <<>>
  THEN RespOut(HttpError(NotConfigured, StatusServiceUnavailable))
  ELSE
  LET urlPath == TrimPrefix(TrimPrefix(r.path, <<"/", "whep", "/">>), <<"/">>)
      parts == Split(urlPath, "/")
      codec == ToLower(parts[1])
      pas == parseAppStream(Join(Tail(parts), "/"))
  IN IF urlPath = <<>>
     THEN RespOut(HttpError(StaticFormat, StatusBadRequest))
     ELSE IF Len(parts) > 0 /\ HasPrefix(parts[Len(parts)], <<"session-">>)
     THEN Routed("sessionOp", NoResp, <<>>, <<>>, <<>>, parts[Len(parts)])
     ELSE IF Len(parts) < 3
     THEN RespOut(HttpError(StaticFormat, StatusBadRequest))
     ELSE IF codec # <<"h264">> /\ codec # <<"vp8">>
     THEN RespOut(HttpError(Str("codec must be h264 or vp8"), StatusBadRequest))
     ELSE IF pas.err # <<>>
     THEN RespOut(HttpError(pas.err, StatusBadRequest))
     ELSE methodSwitch(r, pas.appName, pas.streamName, c.WowzaWSURL)

CloudWsURLAsIs(host) == <<"wss://">> \o host \o <<"/webrtc-session.json">>

\* the WebSocket URL handleWHEPCloud builds for a host
CloudWsURL(host) ==
  IF Contains(host, <<".">>)
  THEN <<"wss://">> \o host \o <<"/webrtc-session.json">>
  ELSE <<"wss://">> \o host \o <<".">> \o CloudDomain \o <<"/webrtc-session.json">>

\* a handleWHEPCloud that checks the allow-list before it looks for a
\* session id
handleWHEPCloudHostFirst(c, r) ==
  LET urlPath == TrimPrefix(TrimPrefix(r.path, <<"/", "whep", "/", "cloud", "/">>), <<"/">>)
      parts == Split(urlPath, "/")
  IN IF Len(parts) >= 2 /\ ~IsHostAllowed(c, parts[2])
     THEN RespOut(HttpError(Str("host not allowed"), StatusForbidden))
     ELSE IF Len(parts) > 0 /\ HasPrefix(parts[Len(parts)], <<"session-">>)
     THEN Routed("sessionOp", NoResp, <<>>, <<>>, <<>>, parts[Len(parts)])
     ELSE methodSwitch(r, <<"live">>, <<"demo">>, CloudWsURL(parts[2]))

\* Dynamic mode: /whep/cloud/{codec}/{host}/{app}/{stream}
handleWHEPCloud(c, r) ==
  LET urlPath == TrimPrefix(TrimPrefix(r.path, <<"/", "whep", "/", "cloud", "/">>), <<"/">>)
      parts == Split(urlPath, "/")
      codec == ToLower(parts[1])
      host == parts[2]
      pas == parseAppStream(Join(Tail(Tail(parts)), "/"))
  IN IF urlPath = <<>>
     THEN RespOut(HttpError(CloudFormat, StatusBadRequest))
     ELSE IF Len(parts) > 0 /\ HasPrefix(parts[Len(parts)], <<"session-">>)
     THEN Routed("sessionOp", NoResp, <<>>, <<>>, <<>>, parts[Len(parts)])
     ELSE IF Len(parts) < 4
     THEN RespOut(HttpError(CloudFormat, StatusBadRequest))
     ELSE IF codec # <<"h264">> /\ codec # <<"vp8">>
     THEN RespOut(HttpError(Str("codec must be h264 or vp8"), StatusBadRequest))
     ELSE IF ~isValidHost(host)
     THEN RespOut(HttpError(Str("invalid host"), StatusBadRequest))
     ELSE IF ~IsHostAllowed(c, host)
     THEN RespOut(HttpError(Str("host not allowed"), StatusForbidden))
     ELSE IF pas.err # <<>>
     THEN RespOut(HttpError(pas.err, StatusBadRequest))
     ELSE methodSwitch(r, pas.appName, pas.streamName, CloudWsURL(host))

\* the mux of Server.Start: the longest registered pattern that matches
\* the path; "/health" and "/stats" match exactly
Mux(c, r) ==
  IF HasPrefix(r.path, <<"/", "whep", "/", "cloud", "/">>) THEN handleWHEPCloud(c, r)
  ELSE IF HasPrefix(r.path, <<"/", "whep", "/">>) THEN handleWHEP(c, r)
  ELSE IF r.path = <<"/", "health">> THEN Routed("health", NoResp, <<>>, <<>>, <<>>, <<>>)
  ELSE IF r.path = <<"/", "stats">> THEN Routed("stats", NoResp, <<>>, <<>>, <<>>, <<>>)
  ELSE RespOut(HttpError(Str("404 page not found"), StatusNotFound))

\* withCORS wraps the mux: it answers every OPTIONS request itself
withCORS(c, r) ==
  IF r.method = "OPTIONS"
  THEN RespOut(WriteHeader(StatusNoContent))
  ELSE Mux(c, r)

\* path.Clean on a rooted path: no empty segment, no trailing slash
RECURSIVE Clean(_)
Clean(p) ==
  IF Len(p) >= 2 /\ p[1] = "/" /\ p[2] = "/" THEN Clean(Tail(p))
  ELSE IF Len(p) >= 2 /\ p[Len(p)] = "/" THEN Clean(SubSeq(p, 1, Len(p) - 1))
  ELSE IF Len(p) <= 1 THEN p
  ELSE <<p[1]>> \o Clean(Tail(p))

\* path.Join(r.URL.Path, sessionID)
PathJoin(urlPath, sessionID) == Clean(urlPath \o <<"/">> \o sessionID)

\* the checks handleCreate makes once the body is read; offer is the
\* body as io.LimitReader hands it over
LimitRead(body, n) ==
  LET bytes[i \in 1..(Len(body) + 1), j \in 0..Len(body)] ==
        IF i > j THEN 0
        ELSE IF i = j THEN AtomLen(body[i])
        ELSE bytes[i, (i + j) \div 2] + bytes[(i + j) \div 2 + 1, j]
      fits == {k \in 0..Len(body) : bytes[1, k] <= n}
  IN SubSeq(body, 1, Cardinality(fits) - 1)

createChecksSkipped(r) == NoResp

\* handleCreate before Manager.Create: the body read, the empty-offer check
\* and the Content-Type check; NoResp when the offer passes
createChecks(r) ==
  LET offer == LimitRead(r.body, BodyCap) IN
  IF Len(offer) = 0
  THEN HttpError(Str("empty SDP offer"), StatusBadRequest)
  ELSE IF ~Contains(r.ct, <<"application/sdp">>)
  THEN HttpError(Str("Content-Type must be application/sdp"), StatusUnsupportedMediaType)
  ELSE NoResp

(***************************************************************************)
(* sdp.go: the parts of the SDP transform that decide whether Negotiate    *)
(* fails.  An SDP is a string whose lines end in the atom "\r\n" or "\n".  *)
(***************************************************************************)
splitSDPLines(sdp) ==
  LET lines == Split(sdp, "\r\n") IN
  IF Len(lines) = 1 THEN Split(sdp, "\n") ELSE lines

\* strings.TrimPrefix(line, "a=") of a line that starts with the atom
\* "a=candidate:": the atom loses its first two bytes
TrimAEquals(line) ==
  IF HasPrefix(line, <<"a=candidate:">>) THEN <<"candidate:">> \o Tail(line) ELSE line

NoCreds ==
  [IceUfrag |-> <<>>, IcePwd |-> <<>>, Fingerprint |-> <<>>, Setup |-> <<>>,
   Candidates |-> <<>>]

\* one turn of the loop of ExtractCredentials
credsLine(creds, rawLine) ==
  LET line == TrimSpace(rawLine) IN
  CASE HasPrefix(line, <<"a=ice-ufrag:">>) ->
         [creds EXCEPT !.IceUfrag = TrimPrefix(line, <<"a=ice-ufrag:">>)]
    [] HasPrefix(line, <<"a=ice-pwd:">>) ->
         [creds EXCEPT !.IcePwd = TrimPrefix(line, <<"a=ice-pwd:">>)]
    [] HasPrefix(line, <<"a=fingerprint:">>) ->
         [creds EXCEPT !.Fingerprint = TrimPrefix(line, <<"a=fingerprint:">>)]
    [] HasPrefix(line, <<"a=setup:">>) ->
         [creds EXCEPT !.Setup = TrimPrefix(line, <<"a=setup:">>)]
    [] HasPrefix(line, <<"a=candidate:">>) ->
         [creds EXCEPT !.Candidates = Append(@, TrimAEquals(line))]
    [] OTHER -> creds

RECURSIVE credsLoop(_, _)
credsLoop(creds, lines) ==
  IF Len(lines) = 0 THEN creds
  ELSE credsLoop(credsLine(creds, lines[1]), Tail(lines))

ExtractCredentials(sdpStr) == credsLoop(NoCreds, splitSDPLines(sdpStr))

\* the line types pion/sdp's Unmarshal knows; it rejects any other line
\* and an SDP that does not start with v=, with an error that quotes the
\* line.  <<>> is nil.
SdpLineKeys ==
  {"v=", "o=", "s=", "t=", "c=", "m=", "a=ice-ufrag:", "a=ice-pwd:",
   "a=fingerprint:", "a=setup:", "a=candidate:", "a=mid:", "a=sendrecv",
   "a=rtpmap:", "a=end-of-candidates", "a=fmtp:", "a=rtcp-mux", "a=ice-options:",
   "a=ice-options:trickle", "a=group:", "a=sendonly", "a=recvonly"}

unmarshalErr(sdpStr) ==
  LET lines == splitSDPLines(sdpStr)
      bad == {i \in 1..Len(lines) :
                /\ lines[i] # <<>>
                /\ \/ lines[i][1] \notin SdpLineKeys
                   \/ (i = 1 /\ lines[i][1] # "v=")}
      first == CHOOSE i \in bad : \A j \in bad : i <= j
  IN IF bad = {} THEN <<>>
     ELSE <<"sdp: invalid syntax ">> \o lines[first]

\* the lines sdp.SessionDescription.Unmarshal reads: the blank ones are
\* of no account.  A line is its type or attribute atom followed by its
\* value; the lines before the first m= line are the session level, an m=
\* line opens a media section.
UnmarshalLines(sdpStr) ==
  LET lines == splitSDPLines(sdpStr) IN
  SelectSeq(lines, LAMBDA l : l # <<>>)

\* what CreateAnswerForWowza makes of one attribute of the session level
sessionAttribute(clientCreds, attr) ==
  IF attr[1] = "a=fingerprint:" /\ clientCreds.Fingerprint # <<>>
  THEN << <<"a=fingerprint:">> \o clientCreds.Fingerprint >>
  ELSE <<attr>>

\* a transform that keeps what Wowza offered in a media section
mediaAttributeKept(clientCreds, attr) == <<attr>>

\* the switch on attr.Key in the loop over a media section: the lines
\* appended to filtered
mediaAttribute(clientCreds, attr) ==
  CASE attr[1] = "a=ice-ufrag:" ->
         IF clientCreds.IceUfrag # <<>>
         THEN << <<"a=ice-ufrag:">> \o clientCreds.IceUfrag >> ELSE <<>>
    [] attr[1] = "a=ice-pwd:" ->
         IF clientCreds.IcePwd # <<>>
         THEN << <<"a=ice-pwd:">> \o clientCreds.IcePwd >> ELSE <<>>
    [] attr[1] = "a=fingerprint:" ->
         IF clientCreds.Fingerprint # <<>>
         THEN << <<"a=fingerprint:">> \o clientCreds.Fingerprint >> ELSE <<>>
    [] attr[1] = "a=setup:" -> << <<"a=setup:", "active">> >>
    [] attr[1] = "a=sendrecv" -> << <<"a=recvonly">> >>
    [] attr[1] = "a=candidate:" -> <<>>
    [] OTHER -> <<attr>>

\* sdp.Attribute{Key: "candidate", Value: cand} for every candidate of
\* the client, as Marshal writes them: "a=candidate:" and then the value,
\* which ExtractCredentials left with its own "candidate:" in front
clientCandidateLines(clientCreds) ==
  [i \in 1..Len(clientCreds.Candidates) |-> <<"a=candidate:">> \o clientCreds.Candidates[i]]

\* the lines of answerDesc after the two loops, from line i of the offer
\* on; inMedia: an m= line came before line i
RECURSIVE answerLines(_, _, _, _)
answerLines(clientCreds, lines, i, inMedia) ==
  IF i > Len(lines) THEN <<>>
  ELSE LET line == lines[i]
           isM == line[1] = "m="
           endsSection == (inMedia \/ isM) /\ (i = Len(lines) \/ lines[i + 1][1] = "m=")
           out == IF isM THEN <<line>>
                  ELSE IF inMedia THEN mediaAttribute(clientCreds, line)
                  ELSE sessionAttribute(clientCreds, line)
       IN out \o (IF endsSection THEN clientCandidateLines(clientCreds) ELSE <<>>)
              \o answerLines(clientCreds, lines, i + 1, inMedia \/ isM)

\* answerDesc.Marshal(): every line ends in CRLF
Marshal(lines) ==
  IF Len(lines) = 0 THEN <<>> ELSE Join(lines, "\r\n") \o <<"\r\n">>

\* net.ParseIP of the text of an address and what filterPrivateIPs asks of
\* the result: "public" for an IPv4 address that is not private, loopback
\* or link-local, "private" for an IPv4 address that is one of these,
\* "v6" for an IPv6 address (ip.To4() == nil), "name" where ParseIP
\* returns nil
ParseIP(a) ==
  CASE a \in {"1.2.3.4", "5.6.7.8", "9.9.9.9", "93.184.216.34", "8.8.4.4"} -> "public"
    [] a \in {"10.0.0.1", "10.0.0.7", "172.16.0.9", "192.168.1.5"} -> "private"
    [] a \in {"127.0.0.1", "169.254.7.7"} -> "private"
    [] a \in {"fe80::1", "2001:db8::7", "::1"} -> "v6"
    [] a = "abcd.local" -> "name"
    [] OTHER -> "name"

\* a filter that keeps every candidate
keptByFilterAll(line) == line = <<>> \/ line[1] # "a=end-of-candidates"

\* filterPrivateIPs keeps this line: parts[4] is the fifth field
keptByFilter(line) ==
  LET parts == Fields(line) IN
  IF HasPrefix(line, <<"a=end-of-candidates">>) THEN FALSE
  ELSE IF HasPrefix(line, <<"a=candidate:">>) /\ Len(parts) >= 5
  THEN ~(Len(parts[5]) = 1 /\ ParseIP(parts[5][1]) \in {"private", "v6"})
  ELSE TRUE

filterPrivateIPs(sdpStr) ==
  Join(SelectSeq(Split(sdpStr, "\r\n"), keptByFilter), "\r\n")

RECURSIVE trickleLoop(_, _)
trickleLoop(lines, added) ==
  IF Len(lines) = 0 THEN <<>>
  ELSE IF ~added /\ HasPrefix(lines[1], <<"a=ice-ufrag:">>)
  THEN <<lines[1], <<"a=ice-options:trickle">> >> \o trickleLoop(Tail(lines), TRUE)
  ELSE <<lines[1]>> \o trickleLoop(Tail(lines), added)

addTrickleICE(sdpStr) ==
  IF Contains(sdpStr, <<"a=ice-options:trickle">>) THEN sdpStr
  ELSE Join(trickleLoop(Split(sdpStr, "\r\n"), FALSE), "\r\n")

\* the SDP CreateAnswerForWowza returns when it succeeds
CreateAnswerForWowza(wowzaOffer, clientOffer) ==
  addTrickleICE(filterPrivateIPs(Marshal(
    answerLines(ExtractCredentials(clientOffer), UnmarshalLines(wowzaOffer), 1, FALSE))))

\* a CreateAnswerForWowza that asks for the fingerprint of Wowza
CreateAnswerForWowzaErrFingerprint(wowzaOffer, clientOffer) ==
  IF ExtractCredentials(wowzaOffer).Fingerprint = <<>>
  THEN <<"wowza offer missing fingerprint">>
  ELSE IF unmarshalErr(wowzaOffer) # <<>>
  THEN <<"parse wowza offer: ">> \o unmarshalErr(wowzaOffer)
  ELSE <<>>

\* the error CreateAnswerForWowza returns, <<>> for nil
CreateAnswerForWowzaErr(wowzaOffer, clientOffer) ==
  IF unmarshalErr(wowzaOffer) # <<>>
  THEN <<"parse wowza offer: ">> \o unmarshalErr(wowzaOffer)
  ELSE <<>>

\* a CreateAnswerForClient that does not ask for a fingerprint
CreateAnswerForClientErrParseOnly(wowzaOffer, clientOffer, wowzaCandidates) ==
  IF unmarshalErr(wowzaOffer) # <<>>
  THEN <<"parse wowza offer: ">> \o unmarshalErr(wowzaOffer)
  ELSE <<>>

\* the error CreateAnswerForClient returns, <<>> for nil
CreateAnswerForClientErr(wowzaOffer, clientOffer, wowzaCandidates) ==
  IF ExtractCredentials(wowzaOffer).Fingerprint = <<>>
  THEN <<"wowza offer missing fingerprint">>
  ELSE IF unmarshalErr(wowzaOffer) # <<>>
  THEN <<"parse wowza offer: ">> \o unmarshalErr(wowzaOffer)
  ELSE <<>>

(***************************************************************************)
(* wowza.go: cleanWowzaCandidate.  A candidate is a string of fields with  *)
(* the atom " " between them.                                              *)
(***************************************************************************)
UpperAtom(a) ==
  CASE a \in {"tcp", "Tcp"} -> "TCP"
    [] a = "udp" -> "UDP"
    [] OTHER -> a

ToUpper(s) == [i \in 1..Len(s) |-> UpperAtom(s[i])]

\* strings.Index(candidate, " generation"), counted from 1; 0: not found
IndexGeneration(candidate) ==
  LET at == {i \in 1..(Len(candidate) - 1) :
               candidate[i] = " " /\ candidate[i + 1] = "generation"}
  IN IF at = {} THEN 0 ELSE CHOOSE i \in at : \A j \in at : i <= j

\* the first statement of cleanWowzaCandidate: idx > 0 in Go is idx > 1 here
cutGeneration(candidate) ==
  LET idx == IndexGeneration(candidate) IN
  IF idx > 1 THEN TrimSpace(SubSeq(candidate, 1, idx - 1)) ELSE candidate

\* a cleaning that leaves the transport alone
addTcpTypeNever(candidate) == candidate

\* the second statement of cleanWowzaCandidate
addTcpType(candidate) ==
  LET parts == Fields(candidate) IN
  IF /\ Len(parts) >= 3
     /\ ToUpper(parts[3]) = <<"TCP">>
     /\ ~Contains(candidate, <<"tcptype">>)
  THEN candidate \o <<" ", "tcptype", " ", "passive">>
  ELSE candidate

cleanWowzaCandidate(candidate) == addTcpType(cutGeneration(candidate))

\* a WowzaICECandidate; sdpMLineIndex is <<>> for nil, <<n>> for a number
WowzaICECandidate(candidate, sdpMLineIndex) ==
  [candidate |-> candidate, sdpMLineIndex |-> sdpMLineIndex]

(***************************************************************************)
(* sdp.go: ExtractMediaOrder and CreateAnswerForClient                     *)
(***************************************************************************)
\* one turn of the loop of ExtractMediaOrder; current is <<>> for nil and
\* <<info>> for a pointer to info
mediaOrderLine(acc, rawLine) ==
  LET line == TrimSpace(rawLine)
      parts == Fields(line)
  IN IF HasPrefix(line, <<"m=">>)
     THEN [result |-> acc.result \o acc.current,
           current |-> IF Len(parts) >= 4
                       THEN << [Mid |-> <<>>, Type |-> Tail(parts[1])] >>
                       ELSE acc.current]
     ELSE IF acc.current # <<>> /\ HasPrefix(line, <<"a=mid:">>)
     THEN [acc EXCEPT !.current = << [acc.current[1] EXCEPT
                                        !.Mid = TrimPrefix(line, <<"a=mid:">>)] >>]
     ELSE acc

RECURSIVE mediaOrderLoop(_, _)
mediaOrderLoop(acc, lines) ==
  IF Len(lines) = 0 THEN acc.result \o acc.current
  ELSE mediaOrderLoop(mediaOrderLine(acc, lines[1]), Tail(lines))

ExtractMediaOrder(sdpStr) ==
  mediaOrderLoop([result |-> <<>>, current |-> <<>>], splitSDPLines(sdpStr))

\* an attribute as Marshal writes it: "a=key:value", and "a=key" when the
\* value is empty.  key is the atom "a=key:".
BareKey(key) ==
  CASE key = "a=ice-ufrag:" -> "a=ice-ufrag"
    [] key = "a=ice-pwd:" -> "a=ice-pwd"
    [] key = "a=mid:" -> "a=mid"
    [] key = "a=candidate:" -> "a=candidate"
    [] OTHER -> key

Attribute(key, value) == IF value = <<>> THEN <<BareKey(key)>> ELSE <<key>> \o value

\* wowzaDesc.MediaDescriptions: for every m= line of the parsed offer, its
\* media, its formats and the attributes of its section
MediaDescriptions(lines) ==
  LET starts == {i \in 1..Len(lines) : lines[i][1] = "m="}
      ordered == SelectSeq([i \in 1..Len(lines) |-> i], LAMBDA i : i \in starts)
      endOf(i) == IF \E j \in starts : j > i
                  THEN (CHOOSE j \in starts : j > i /\ \A k \in starts : k > i => j <= k) - 1
                  ELSE Len(lines)
      fields(i) == Fields(Tail(lines[i]))
  IN [n \in 1..Len(ordered) |->
       [Media |-> fields(ordered[n])[1],
        Formats |-> SubSeq(fields(ordered[n]), 4, Len(fields(ordered[n]))),
        Attributes |-> SelectSeq(SubSeq(lines, ordered[n] + 1, endOf(ordered[n])),
                                 LAMBDA l : l[1] \notin {"c=", "m="})]]

\* wowzaMediaByType[mediaType]: <<>> when the map has no such key, else
\* <<md>> with the last media description of that type
wowzaMediaByType(mds, mediaType) ==
  LET of == {n \in 1..Len(mds) : ToLower(mds[n].Media) = mediaType} IN
  IF of = {} THEN <<>>
  ELSE << mds[CHOOSE n \in of : \A k \in of : k <= n] >>

\* the attributes CreateAnswerForClient copies from a media section of Wowza
CodecKeys ==
  {"a=rtpmap:", "a=fmtp:", "a=rtcp-fb:", "a=ssrc:", "a=msid:", "a=cliprect:",
   "a=framesize:", "a=control:"}

\* a rejection that leaves the port of the section open
rejectedMediaPort9(mediaType, clientMid, wowzaCreds) ==
  << <<"m=">> \o mediaType \o <<" ", "9", " ", "UDP/TLS/RTP/SAVPF", " ", "0">>,
     Attribute("a=mid:", clientMid),
     Attribute("a=fingerprint:", wowzaCreds.Fingerprint),
     <<"a=inactive">> >>

\* the lines of a media section for a type Wowza does not offer
rejectedMedia(mediaType, clientMid, wowzaCreds) ==
  << <<"m=">> \o mediaType \o <<" ", "0", " ", "UDP/TLS/RTP/SAVPF", " ", "0">>,
     Attribute("a=mid:", clientMid),
     Attribute("a=ice-ufrag:", wowzaCreds.IceUfrag),
     Attribute("a=ice-pwd:", wowzaCreds.IcePwd),
     Attribute("a=fingerprint:", wowzaCreds.Fingerprint),
     <<"a=setup:", "passive">>,
     <<"a=inactive">> >>

\* candidate attributes that carry the candidates as Wowza sent them
candidateAttributesRaw(wowzaCandidates, i) ==
  LET mine == SelectSeq(wowzaCandidates, LAMBDA c : c.sdpMLineIndex = <<i>>) IN
  [n \in 1..Len(mine) |-> Attribute("a=candidate:", mine[n].candidate)]

\* the candidate attributes of the media section with index i (from 0)
candidateAttributes(wowzaCandidates, i) ==
  LET mine == SelectSeq(wowzaCandidates, LAMBDA c : c.sdpMLineIndex = <<i>>) IN
  [n \in 1..Len(mine) |->
     Attribute("a=candidate:",
               TrimPrefix(cleanWowzaCandidate(mine[n].candidate), <<"candidate:">>))]

\* the lines of a media section for a type Wowza offers
acceptedMedia(wowzaMD, clientMid, wowzaCreds, wowzaCandidates, i) ==
  << <<"m=">> \o wowzaMD.Media \o <<" ", "9", " ", "UDP/TLS/RTP/SAVPF", " ">>
       \o Join(wowzaMD.Formats, " "),
     <<"c=", "IN", " ", "IP4", " ", "0.0.0.0">> >>
  \o SelectSeq(wowzaMD.Attributes, LAMBDA attr : attr[1] \in CodecKeys)
  \o << Attribute("a=ice-ufrag:", wowzaCreds.IceUfrag),
        Attribute("a=ice-pwd:", wowzaCreds.IcePwd),
        Attribute("a=fingerprint:", wowzaCreds.Fingerprint),
        <<"a=setup:", "passive">>,
        Attribute("a=mid:", clientMid),
        <<"a=sendonly">>,
        <<"a=rtcp-mux">> >>
  \o candidateAttributes(wowzaCandidates, i)

\* a mapping of mids that takes the mid of Wowza's section
midOfWowza(clientMediaInfo, wowzaMD) ==
  LET mids == SelectSeq(wowzaMD.Attributes, LAMBDA attr : attr[1] = "a=mid:") IN
  IF Len(mids) = 0 THEN <<>> ELSE Tail(mids[1])

\* the mid of a section of the answer
midOfAnswer(clientMediaInfo, wowzaMD) == clientMediaInfo.Mid

\* the loop "Build media sections in client's order", from clientMedia[n] on
RECURSIVE clientMediaLoop(_, _, _, _, _)
clientMediaLoop(clientMedia, n, mds, wowzaCreds, wowzaCandidates) ==
  IF n > Len(clientMedia) THEN <<>>
  ELSE LET mediaType == ToLower(clientMedia[n].Type)
           found == wowzaMediaByType(mds, mediaType)
       IN (IF found = <<>>
           THEN rejectedMedia(mediaType, clientMedia[n].Mid, wowzaCreds)
           ELSE acceptedMedia(found[1], midOfAnswer(clientMedia[n], found[1]),
                              wowzaCreds, wowzaCandidates, n - 1))
          \o clientMediaLoop(clientMedia, n + 1, mds, wowzaCreds, wowzaCandidates)

\* Origin.SessionID and Origin.SessionVersion of the parsed offer: the
\* second and third field of its o= line
OriginOf(lines) ==
  LET o == SelectSeq(lines, LAMBDA l : l[1] = "o=")
      f == Fields(Tail(o[1]))
  IN [SessionID |-> f[2], SessionVersion |-> f[3]]

\* the session level of the answer for the client
clientSessionLines(clientMedia, origin, wowzaCreds) ==
  << <<"v=", "0">>,
     <<"o=", "-", " ">> \o origin.SessionID \o <<" ">> \o origin.SessionVersion
        \o <<" ", "IN", " ", "IP4", " ", "127.0.0.1">>,
     <<"s=", "-">>,
     <<"t=", "0", " ", "0">>,
     <<"a=group:", "BUNDLE", " ">>
        \o Join([n \in 1..Len(clientMedia) |-> clientMedia[n].Mid], " "),
     <<"a=msid-semantic:", "WMS", " ", "*">>,
     Attribute("a=fingerprint:", wowzaCreds.Fingerprint) >>

\* the SDP CreateAnswerForClient returns when it succeeds
CreateAnswerForClient(wowzaOffer, clientOffer, wowzaCandidates) ==
  LET clientMedia == ExtractMediaOrder(clientOffer)
      wowzaCreds == ExtractCredentials(wowzaOffer)
      lines == UnmarshalLines(wowzaOffer)
  IN Marshal(clientSessionLines(clientMedia, OriginOf(lines), wowzaCreds)
             \o clientMediaLoop(clientMedia, 1, MediaDescriptions(lines), wowzaCreds,
                                wowzaCandidates))

(***************************************************************************)
(* wowza.go: what Wowza can put on the WebSocket.                          *)
(* A response is [status, statusDescription, sessionID, sdp, cands];       *)
(* sdp = <<>> is a missing or empty "sdp".                                 *)
(***************************************************************************)
WowzaResponse(status, desc, sessionID, sdp, cands) ==
  [status |-> status, statusDescription |-> desc, sessionID |-> sessionID,
   sdp |-> sdp, cands |-> cands]

\* no frame was read
NoResponse == WowzaResponse(0, <<>>, <<>>, <<>>, <<>>)

GoodOffer ==
  <<"v=", "0", "\r\n",
    "o=", "-", " ", "0", " ", "0", " ", "IN", " ", "IP4", " ", "127.0.0.1", "\r\n",
    "s=", "-", "\r\n",
    "t=", "0", " ", "0", "\r\n",
    "a=fingerprint:", "sha-256 WW", "\r\n",
    "m=", "video", " ", "9", " ", "UDP/TLS/RTP/SAVPF", " ", "97", "\r\n",
    "a=mid:", "0", "\r\n",
    "a=ice-ufrag:", "ufragW", "\r\n",
    "a=ice-pwd:", "pwdW", "\r\n",
    "a=setup:", "actpass", "\r\n">>

NoFingerprintOffer ==
  <<"v=", "0", "\n",
    "o=", "-", " ", "0", " ", "0", " ", "IN", " ", "IP4", " ", "127.0.0.1", "\n",
    "s=", "-", "\n",
    "t=", "0", " ", "0", "\n",
    "m=", "video", " ", "9", " ", "UDP/TLS/RTP/SAVPF", " ", "97", "\n",
    "a=ice-ufrag:", "ufragW", "\n">>

GarbledOffer == <<"v=", "0", "\r\n", "a=fingerprint:", "sha-256 WW", "\r\n", "garbled">>

\* an offer of Wowza with the fingerprint at both levels, two media
\* sections with their own credentials, and a candidate
FullOffer ==
  <<"v=", "0", "\r\n",
    "o=", "-", " ", "0", " ", "0", " ", "IN", " ", "IP4", " ", "127.0.0.1", "\r\n",
    "s=", "-", "\r\n",
    "t=", "0", " ", "0", "\r\n",
    "a=fingerprint:", "sha-256 WW", "\r\n",
    "m=", "video", " ", "9", " ", "UDP/TLS/RTP/SAVPF", " ", "97", "\r\n",
    "c=", "IN", " ", "IP4", " ", "0.0.0.0", "\r\n",
    "a=mid:", "0", "\r\n",
    "a=ice-ufrag:", "ufragW", "\r\n",
    "a=ice-pwd:", "pwdW", "\r\n",
    "a=fingerprint:", "sha-256 WW", "\r\n",
    "a=setup:", "actpass", "\r\n",
    "a=sendrecv", "\r\n",
    "a=candidate:", "2", " ", "1", " ", "UDP", " ", "2130706431", " ", "9.9.9.9", " ", "9", " ", "typ", " ", "host", "\r\n",
    "m=", "audio", " ", "9", " ", "UDP/TLS/RTP/SAVPF", " ", "111", "\r\n",
    "a=mid:", "1", "\r\n",
    "a=ice-ufrag:", "ufragW", "\r\n",
    "a=ice-pwd:", "pwdW", "\r\n",
    "a=fingerprint:", "sha-256 WW", "\r\n",
    "a=setup:", "actpass", "\r\n">>

\* an offer of Wowza with its credentials in the media section only
MediaLevelOffer ==
  <<"v=", "0", "\r\n",
    "o=", "-", " ", "0", " ", "0", " ", "IN", " ", "IP4", " ", "127.0.0.1", "\r\n",
    "s=", "-", "\r\n",
    "t=", "0", " ", "0", "\r\n",
    "m=", "video", " ", "9", " ", "UDP/TLS/RTP/SAVPF", " ", "97", "\r\n",
    "a=mid:", "0", "\r\n",
    "a=ice-ufrag:", "ufragW", "\r\n",
    "a=ice-pwd:", "pwdW", "\r\n",
    "a=fingerprint:", "sha-256 WW", "\r\n",
    "a=setup:", "actpass", "\r\n">>

\* an offer of Wowza with its credentials at the session level only
SessionLevelOffer ==
  <<"v=", "0", "\r\n",
    "o=", "-", " ", "0", " ", "0", " ", "IN", " ", "IP4", " ", "127.0.0.1", "\r\n",
    "s=", "-", "\r\n",
    "t=", "0", " ", "0", "\r\n",
    "a=ice-ufrag:", "ufragW", "\r\n",
    "a=ice-pwd:", "pwdW", "\r\n",
    "a=fingerprint:", "sha-256 WW", "\r\n",
    "m=", "video", " ", "9", " ", "UDP/TLS/RTP/SAVPF", " ", "97", "\r\n",
    "a=mid:", "0", "\r\n",
    "a=setup:", "actpass", "\r\n">>

WowzaOffers == {FullOffer, MediaLevelOffer, SessionLevelOffer, GoodOffer}

\* an offer of a client with candidates: a public, a private and an IPv6
\* address
CandidatesOffer ==
  <<"v=", "0", "\r\n",
    "o=", "-", " ", "0", " ", "0", " ", "IN", " ", "IP4", " ", "127.0.0.1", "\r\n",
    "s=", "-", "\r\n",
    "t=", "0", " ", "0", "\r\n",
    "a=fingerprint:", "sha-256 CC", "\r\n",
    "m=", "video", " ", "9", " ", "UDP/TLS/RTP/SAVPF", " ", "96", "\r\n",
    "a=mid:", "video", "\r\n",
    "a=ice-ufrag:", "ufragC", "\r\n",
    "a=ice-pwd:", "pwdC", "\r\n",
    "a=setup:", "actpass", "\r\n",
    "a=candidate:", "1", " ", "1", " ", "UDP", " ", "2130706431", " ", "1.2.3.4", " ", "9", " ", "typ", " ", "host", "\r\n",
    "a=candidate:", "3", " ", "1", " ", "UDP", " ", "2130706431", " ", "10.0.0.7", " ", "9", " ", "typ", " ", "host", "\r\n",
    "a=candidate:", "4", " ", "1", " ", "UDP", " ", "2130706431", " ", "fe80::1", " ", "9", " ", "typ", " ", "host", "\r\n">>

\* an offer of Wowza with the candidates of two hosts, a private and a
\* public address, in its video section, and codec attributes
TwoCandidatesOffer ==
  <<"v=", "0", "\r\n",
    "o=", "-", " ", "4611", " ", "2", " ", "IN", " ", "IP4", " ", "127.0.0.1", "\r\n",
    "s=", "-", "\r\n",
    "t=", "0", " ", "0", "\r\n",
    "a=fingerprint:", "sha-256 WW", "\r\n",
    "m=", "video", " ", "9", " ", "UDP/TLS/RTP/SAVPF", " ", "97", " ", "98", "\r\n",
    "a=mid:", "0", "\r\n",
    "a=rtpmap:", "97 H264/90000", "\r\n",
    "a=fmtp:", "97 packetization-mode=1", "\r\n",
    "a=rtcp-mux", "\r\n",
    "a=ice-ufrag:", "ufragW", "\r\n",
    "a=ice-pwd:", "pwdW", "\r\n",
    "a=fingerprint:", "sha-256 WW", "\r\n",
    "a=setup:", "actpass", "\r\n",
    "a=candidate:", "1", " ", "1", " ", "UDP", " ", "100", " ", "10.0.0.1", " ", "9", " ", "typ", " ", "host", "\r\n",
    "a=candidate:", "2", " ", "1", " ", "UDP", " ", "100", " ", "93.184.216.34", " ", "9", " ", "typ", " ", "host", "\r\n",
    "a=end-of-candidates", "\r\n">>

\* an offer of Wowza that states the trickle option itself, after the
\* ice-pwd of each of its two media sections
TrickleOffer ==
  <<"v=", "0", "\r\n",
    "o=", "-", " ", "4611", " ", "2", " ", "IN", " ", "IP4", " ", "127.0.0.1", "\r\n",
    "s=", "-", "\r\n",
    "t=", "0", " ", "0", "\r\n",
    "a=fingerprint:", "sha-256 WW", "\r\n",
    "m=", "audio", " ", "9", " ", "UDP/TLS/RTP/SAVPF", " ", "111", "\r\n",
    "a=mid:", "0", "\r\n",
    "a=ice-ufrag:", "ufragW", "\r\n",
    "a=ice-pwd:", "pwdW", "\r\n",
    "a=ice-options:trickle", "\r\n",
    "a=fingerprint:", "sha-256 WW", "\r\n",
    "a=setup:", "actpass", "\r\n",
    "m=", "video", " ", "9", " ", "UDP/TLS/RTP/SAVPF", " ", "97", "\r\n",
    "a=mid:", "1", "\r\n",
    "a=ice-ufrag:", "ufragW", "\r\n",
    "a=ice-pwd:", "pwdW", "\r\n",
    "a=ice-options:trickle", "\r\n",
    "a=fingerprint:", "sha-256 WW", "\r\n",
    "a=setup:", "actpass", "\r\n">>

\* an offer of a client with three media sections: audio, video (written
\* "Video") and a data channel
ThreeMediaOffer ==
  <<"v=", "0", "\r\n",
    "o=", "-", " ", "7", " ", "1", " ", "IN", " ", "IP4", " ", "127.0.0.1", "\r\n",
    "s=", "-", "\r\n",
    "t=", "0", " ", "0", "\r\n",
    "a=fingerprint:", "sha-256 CC", "\r\n",
    "m=", "audio", " ", "9", " ", "UDP/TLS/RTP/SAVPF", " ", "109", "\r\n",
    "a=mid:", "a1", "\r\n",
    "a=ice-ufrag:", "ufragC", "\r\n",
    "a=ice-pwd:", "pwdC", "\r\n",
    "a=setup:", "actpass", "\r\n",
    "a=candidate:", "1", " ", "1", " ", "UDP", " ", "2130706431", " ", "1.2.3.4", " ", "9", " ", "typ", " ", "host", "\r\n",
    "m=", "Video", " ", "9", " ", "UDP/TLS/RTP/SAVPF", " ", "96", "\r\n",
    "a=mid:", "v1", "\r\n",
    "a=ice-ufrag:", "ufragC", "\r\n",
    "a=ice-pwd:", "pwdC", "\r\n",
    "a=setup:", "actpass", "\r\n",
    "m=", "application", " ", "9", " ", "UDP/DTLS/SCTP", " ", "webrtc-datachannel", "\r\n",
    "a=mid:", "d1", "\r\n",
    "a=ice-ufrag:", "ufragC", "\r\n",
    "a=ice-pwd:", "pwdC", "\r\n",
    "a=setup:", "actpass", "\r\n">>

\* an offer of Wowza with candidates and a=end-of-candidates at the
\* session level
SessionCandidatesOffer ==
  <<"v=", "0", "\r\n",
    "o=", "-", " ", "4611", " ", "2", " ", "IN", " ", "IP4", " ", "127.0.0.1", "\r\n",
    "s=", "-", "\r\n",
    "t=", "0", " ", "0", "\r\n",
    "a=fingerprint:", "sha-256 WW", "\r\n",
    "a=candidate:", "1", " ", "1", " ", "UDP", " ", "100", " ", "10.0.0.1", " ", "9", " ", "typ", " ", "host", "\r\n",
    "a=candidate:", "2", " ", "1", " ", "UDP", " ", "100", " ", "93.184.216.34", " ", "9", " ", "typ", " ", "host", "\r\n",
    "a=end-of-candidates", "\r\n",
    "m=", "video", " ", "9", " ", "UDP/TLS/RTP/SAVPF", " ", "97", "\r\n",
    "a=mid:", "0", "\r\n",
    "a=ice-ufrag:", "ufragW", "\r\n",
    "a=ice-pwd:", "pwdW", "\r\n",
    "a=fingerprint:", "sha-256 WW", "\r\n",
    "a=setup:", "actpass", "\r\n">>

\* an offer of a client with candidates of every kind of address: public,
\* RFC 1918, loopback, link-local, IPv6 and a name
ManyCandidatesOffer ==
  <<"v=", "0", "\r\n",
    "o=", "-", " ", "7", " ", "1", " ", "IN", " ", "IP4", " ", "127.0.0.1", "\r\n",
    "s=", "-", "\r\n",
    "t=", "0", " ", "0", "\r\n",
    "a=fingerprint:", "sha-256 CC", "\r\n",
    "m=", "video", " ", "9", " ", "UDP/TLS/RTP/SAVPF", " ", "96", "\r\n",
    "a=mid:", "video", "\r\n",
    "a=ice-ufrag:", "ufragC", "\r\n",
    "a=ice-pwd:", "pwdC", "\r\n",
    "a=setup:", "actpass", "\r\n",
    "a=candidate:", "1", " ", "1", " ", "UDP", " ", "100", " ", "5.6.7.8", " ", "9", " ", "typ", " ", "host", "\r\n",
    "a=candidate:", "2", " ", "1", " ", "UDP", " ", "100", " ", "172.16.0.9", " ", "9", " ", "typ", " ", "host", "\r\n",
    "a=candidate:", "3", " ", "1", " ", "UDP", " ", "100", " ", "192.168.1.5", " ", "9", " ", "typ", " ", "host", "\r\n",
    "a=candidate:", "4", " ", "1", " ", "UDP", " ", "100", " ", "127.0.0.1", " ", "9", " ", "typ", " ", "host", "\r\n",
    "a=candidate:", "5", " ", "1", " ", "UDP", " ", "100", " ", "169.254.7.7", " ", "9", " ", "typ", " ", "host", "\r\n",
    "a=candidate:", "6", " ", "1", " ", "UDP", " ", "100", " ", "2001:db8::7", " ", "9", " ", "typ", " ", "host", "\r\n",
    "a=candidate:", "7", " ", "1", " ", "UDP", " ", "100", " ", "abcd.local", " ", "9", " ", "typ", " ", "host", "\r\n",
    "a=end-of-candidates", "\r\n">>

\* an offer of a client without ice-ufrag
NoUfragOffer ==
  <<"v=", "0", "\r\n",
    "o=", "-", " ", "7", " ", "1", " ", "IN", " ", "IP4", " ", "127.0.0.1", "\r\n",
    "s=", "-", "\r\n",
    "t=", "0", " ", "0", "\r\n",
    "a=fingerprint:", "sha-256 CC", "\r\n",
    "m=", "video", " ", "9", " ", "UDP/TLS/RTP/SAVPF", " ", "96", "\r\n",
    "a=mid:", "video", "\r\n",
    "a=setup:", "actpass", "\r\n">>

ClientOffer ==
  <<"v=", "0", "\r\n",
    "o=", "-", " ", "0", " ", "0", " ", "IN", " ", "IP4", " ", "127.0.0.1", "\r\n",
    "s=", "-", "\r\n",
    "t=", "0", " ", "0", "\r\n",
    "a=fingerprint:", "sha-256 CC", "\r\n",
    "m=", "video", " ", "9", " ", "UDP/TLS/RTP/SAVPF", " ", "96", "\r\n",
    "a=mid:", "video", "\r\n",
    "a=ice-ufrag:", "ufragC", "\r\n",
    "a=ice-pwd:", "pwdC", "\r\n">>

Candidate1 ==
  WowzaICECandidate(<<"candidate:", "1", " ", "1", " ", "UDP", " ", "2130706431", " ",
                      "93.184.216.34", " ", "9", " ", "typ", " ", "host">>, <<0>>)

\* candidates as Wowza Cloud sends them: with the "generation" suffix, over
\* TCP, for the second media section, without an index
CandidateGeneration ==
  WowzaICECandidate(<<"candidate:", "1", " ", "1", " ", "UDP", " ", "100", " ", "8.8.4.4",
                      " ", "9", " ", "typ", " ", "host", " ", "generation", " ", "0">>, <<0>>)

CandidateTcp ==
  WowzaICECandidate(<<"candidate:", "2", " ", "1", " ", "tcp", " ", "90", " ", "8.8.4.4",
                      " ", "443", " ", "typ", " ", "host", " ", "generation", " ", "0">>, <<1>>)

CandidateNoIndex ==
  WowzaICECandidate(<<"candidate:", "3", " ", "1", " ", "UDP", " ", "80", " ", "5.6.7.8",
                      " ", "9", " ", "typ", " ", "host">>, <<>>)

\* the frames Wowza may answer getOffer with
OfferResponses ==
  { WowzaResponse(200, <<>>, Str("wz-1"), GoodOffer, <<>>),
    WowzaResponse(200, <<>>, Str("wz-2"), GoodOffer, <<>>),
    WowzaResponse(299, <<>>, <<>>, NoFingerprintOffer, <<>>),
    WowzaResponse(200, <<>>, Str("wz-1"), GarbledOffer, <<>>),
    WowzaResponse(200, Str("OK"), Str("wz-1"), <<>>, <<>>),
    WowzaResponse(404, Str("stream not found"), <<>>, <<>>, <<>>),
    WowzaResponse(199, Str("early"), Str("wz-1"), GoodOffer, <<>>),
    WowzaResponse(0, <<>>, <<>>, GoodOffer, <<>>) }

\* the frames Wowza may answer sendResponse with
CandidatesResponses ==
  { WowzaResponse(200, <<>>, <<>>, <<>>, <<Candidate1>>),
    WowzaResponse(300, Str("redirect"), <<>>, <<>>, <<Candidate1>>),
    WowzaResponse(504, Str("stream timed out"), <<>>, <<>>, <<>>) }

\* err.Error() of a failed dial, write or read: the text of the network
\* library's error.  A close frame's reason is part of the text of the
\* read error (websocket.CloseError).
DialCauses == { Str("dial tcp: i/o timeout") }

WriteCauses == { Str("write tcp: i/o timeout") }

ReadCauses ==
  { Str("read tcp: i/o timeout"),
    <<"websocket: close 1011 (internal server error): ", "wowza error", " 503">> }

(***************************************************************************)
(* The gateway as a state machine.                                         *)
(*                                                                         *)
(*   cfg       the Config, fixed at start-up                               *)
(*   sessions  Manager.sessions: the ids in the registry                   *)
(*   heap      the Session objects ever made by NewSession, by id          *)
(*   uuids     how many ids uuid.New has handed out                        *)
(*   wk        the HTTP workers: one request each, with its position in    *)
(*             the handler and the handler's local variables               *)
(*   shut      Server.Stop / Manager.Shutdown and the process              *)
(***************************************************************************)
VARIABLES cfg, sessions, heap, uuids, wk, shut

vars == <<cfg, sessions, heap, uuids, wk, shut>>

\* cfg.WsTimeout (-ws-timeout, 30 s by default), in ticks of the clock
WsTimeout == 4

\* the HTTP workers: net/http runs one goroutine per connection
Workers == {1, 2}

UUIDAtoms == <<"u1", "u2", "u3", "u4", "u5", "u6">>

\* id := "session-" + uuid.New().String()
NewID(n) == <<"session-", UUIDAtoms[n]>>

StaticWsURL == <<"wss://", "w", ".", "example", "/webrtc-session.json">>

\* -websocket wss://w.example/webrtc-session.json, no allow-list
StaticConfig == [WowzaWSURL |-> StaticWsURL, AllowedHosts |-> <<>>]

\* -allowed-hosts=*.entrypoint.cloud.wowza.com, no static URL
CloudConfig == [WowzaWSURL |-> <<>>, AllowedHosts |-> <<"*", ".">> \o CloudDomain]

Configs == {StaticConfig, CloudConfig}

\* NewSession, with the fields of the WebSocket it will own (dialed: the
\* URL given to the dialer, conn, frames)
\* and of the goroutines that run its Stop (goRemove: started by
\* Manager.Remove, goShutdown: started by Manager.Shutdown, goCaller: any
\* other holder of the session that calls Stop)
NewSession(id, appName, streamName, wsURL) ==
  [id |-> id, appName |-> appName, streamName |-> streamName, wsURL |-> wsURL,
   wowzaSessionID |-> <<>>, stopped |-> FALSE, onStop |-> FALSE,
   stopOnce |-> "new", callbacks |-> 0,
   dialed |-> <<>>, dials |-> 0, conn |-> "none", frames |-> <<>>,
   goRemove |-> "none", goShutdown |-> "none", goCaller |-> "none"]

\* a frame written to or read from the WebSocket: its direction, the
\* command it belongs to, streamInfo.sessionId and, for a frame read, the
\* whole response
Frame(dir, command, sessionID, resp) ==
  [dir |-> dir, command |-> command, sessionID |-> sessionID, resp |-> resp]

\* Manager.mu, write side: nobody holds it
NoLock == [kind |-> "none", w |-> 0, id |-> <<>>, g |-> "", at |-> ""]

IdleWorker ==
  [pc |-> "idle",
   req |-> [method |-> "", path |-> <<>>, ct |-> <<>>, body |-> <<>>],
   appName |-> <<>>, streamName |-> <<>>, wsURL |-> <<>>,
   sessionID |-> <<>>, offer |-> <<>>, wowzaOffer |-> <<>>, answerForWowza |-> <<>>,
   err |-> <<>>, answer |-> <<>>, found |-> FALSE, resp |-> NoResp,
   clock |-> 0, deadline |-> 0, storing |-> <<>>, stats |-> <<>>]

\* the state after main has built the Config, the Manager and the Server,
\* for a Config among C
InitWith(C) ==
  /\ cfg \in C
  /\ sessions = {}
  /\ heap = <<>>
  /\ uuids = 0
  /\ wk = [w \in Workers |-> IdleWorker]
  /\ shut = [pc |-> "serving", snapshot |-> {}, ctxDone |-> FALSE, result |-> "none",
             mu |-> NoLock]

Init == InitWith(Configs)

\* the process has not exited
Alive == shut.pc # "exited"

(***************************************************************************)
(* The requests clients send.  ServeMux redirects a path that is not in    *)
(* canonical form, so handlers only see clean paths.                       *)
(***************************************************************************)
Request(method, path, ct, body) ==
  [method |-> method, path |-> path, ct |-> ct, body |-> body]

StaticPath == <<"/", "whep", "/", "h264", "/", "live", "/", "demo">>

CloudPath(host) ==
  <<"/", "whep", "/", "cloud", "/", "h264", "/">> \o host \o <<"/", "live", "/", "demo">>

CloudIDHost == <<"abcd1234">>

CloudFQDNHost == <<"abcd1234", ".">> \o CloudDomain

EvilHost == <<"evil", ".", "example", ".", "com">>

SdpCT == <<"application/sdp">>

TrickleCT == <<"application/trickle-ice-sdpfrag">>

CreatePaths == {StaticPath, CloudPath(CloudIDHost), CloudPath(CloudFQDNHost), CloudPath(EvilHost)}

\* the ids a client may name: every id the manager can hand out (a client
\* learns them from Location and from /stats) and one it never hands out
NamedIDs == {NewID(n) : n \in 1..MaxSessions} \cup {<<"session-", "zz">>}

SessionPaths ==
  {PathJoin(p, id) : p \in {StaticPath, CloudPath(CloudFQDNHost)}, id \in NamedIDs}

TrickleBody == <<"a=candidate:", "1", " ", "1", " ", "UDP", " ", "1", " ", "5.6.7.8", " ", "9", " ", "typ", " ", "host", "\r\n", "a=mid:", "video">>

\* fragments without a candidate line, and with one beyond the first 4 KiB
OtherBodies ==
  { <<>>,
    <<"a=mid:", "video">>,
    <<"a=mid:", "video", "\r\n", "pad5000", "\r\n",
      "a=candidate:", "1", " ", "1", " ", "UDP", " ", "1", " ", "5.6.7.8", " ", "9", " ", "typ", " ", "host">> }

Requests ==
  {Request("POST", p, SdpCT, ClientOffer) : p \in CreatePaths}
  \cup {Request("POST", StaticPath, SdpCT, <<>>),
        Request("POST", StaticPath, TrickleCT, ClientOffer)}
  \cup {Request("DELETE", p, <<>>, <<>>) : p \in SessionPaths}
  \cup {Request("PATCH", p, TrickleCT, TrickleBody) : p \in SessionPaths}
  \cup {Request("PATCH", PathJoin(CloudPath(CloudFQDNHost), NewID(1)), ct, b) :
          ct \in {TrickleCT, SdpCT}, b \in OtherBodies}
  \cup {Request("OPTIONS", StaticPath, <<>>, <<>>),
        Request("GET", <<"/", "stats">>, <<>>, <<>>)}

(***************************************************************************)
(* manager.go                                                              *)
(***************************************************************************)
\* a faulty Create: the session is made but not put in the map
CreateUnregistered(id) == sessions

\* Manager.Create: m.sessions[id] = sess
Create(id) == sessions \cup {id}

\* Manager.Get
Get(id) == id \in sessions

\* a faulty Remove: it returns without touching the map
RemoveKeeps(id) == [sessions |-> sessions, heap |-> heap]

\* a faulty Remove: it starts Stop and leaves the delete to the callback
RemoveStopsOnly(id) ==
  IF id \in sessions
  THEN [sessions |-> sessions, heap |-> [heap EXCEPT ![id].goRemove = "go"]]
  ELSE [sessions |-> sessions, heap |-> heap]

\* Manager.Remove: the registry and the heap it leaves.  "go sess.Stop()"
\* starts the goroutine goRemove of the session.
Remove(id) ==
  IF id \in sessions
  THEN [sessions |-> sessions \ {id},
        heap |-> [heap EXCEPT ![id].goRemove = "go"]]
  ELSE [sessions |-> sessions, heap |-> heap]

\* Manager.ActiveIDs
ActiveIDs == sessions

\* a faulty AddICECandidate: it marks the session stopped
AddICECandidateStops(sess, candidate, sdpMid) ==
  [session |-> [sess EXCEPT !.stopped = TRUE], err |-> <<>>]

\* Session.AddICECandidate: the session it leaves and the error it returns
AddICECandidate(sess, candidate, sdpMid) == [session |-> sess, err |-> <<>>]

\* one turn of the loop of parseICEFragment
fragLine(acc, rawLine) ==
  LET line == TrimSpace(rawLine) IN
  IF HasPrefix(line, <<"a=candidate:">>)
  THEN [acc EXCEPT !.candidate = TrimAEquals(line)]
  ELSE IF HasPrefix(line, <<"a=mid:">>)
  THEN [acc EXCEPT !.sdpMid = TrimPrefix(line, <<"a=mid:">>)]
  ELSE acc

RECURSIVE fragLoop(_, _)
fragLoop(acc, lines) ==
  IF Len(lines) = 0 THEN acc ELSE fragLoop(fragLine(acc, lines[1]), Tail(lines))

parseICEFragment(frag) ==
  fragLoop([candidate |-> <<>>, sdpMid |-> <<>>], splitSDPLines(frag))

\* io.LimitReader(r.Body, 4*1024)
FragmentCap == 4096

\* handleICECandidate: the response and the session it leaves
handleICECandidate(r, sess) ==
  LET frag == parseICEFragment(LimitRead(r.body, FragmentCap))
      added == AddICECandidate(sess, frag.candidate, frag.sdpMid)
  IN IF ~Contains(r.ct, <<"application/trickle-ice-sdpfrag">>)
     THEN [resp |-> HttpError(Str("Content-Type must be application/trickle-ice-sdpfrag"),
                              StatusUnsupportedMediaType),
           session |-> sess]
     ELSE IF frag.candidate = <<>>
     THEN [resp |-> WriteHeader(StatusNoContent), session |-> sess]
     ELSE IF added.err # <<>>
     THEN [resp |-> HttpError(Str("failed to add ICE candidate"), StatusInternalServerError),
           session |-> added.session]
     ELSE [resp |-> WriteHeader(StatusNoContent), session |-> added.session]

(***************************************************************************)
(* The HTTP workers.                                                       *)
(***************************************************************************)
\* new requests are read only until http.Server.Shutdown has begun
Accepting == shut.pc = "serving"

Done(w, resp) == [wk[w] EXCEPT !.pc = "done", !.resp = resp]

\* a request that the router answers without touching the manager:
\* withCORS for OPTIONS, the validation failures of handleWHEP and
\* handleWHEPCloud, 404 of the mux
ServeRespond(w, r) ==
  /\ Accepting
  /\ wk[w].pc = "idle"
  /\ withCORS(cfg, r).kind = "resp"
  /\ wk' = [wk EXCEPT ![w] = [IdleWorker EXCEPT !.pc = "done", !.req = r,
                                               !.resp = withCORS(cfg, r).resp]]
  /\ UNCHANGED <<cfg, sessions, heap, uuids, shut>>

\* handleStats (Manager.Stats) and handleHealth (Manager.ActiveIDs)
ServeStats(w, r) ==
  /\ Accepting
  /\ wk[w].pc = "idle"
  /\ withCORS(cfg, r).kind \in {"stats", "health"}
  /\ wk' = [wk EXCEPT ![w] =
              [IdleWorker EXCEPT
                 !.pc = "done", !.req = r,
                 !.resp = IF r.method # "GET"
                          THEN HttpError(Str("method not allowed"), StatusMethodNotAllowed)
                          ELSE [WriteHeader(StatusOK) EXCEPT
                                  !.hdr = @ \cup {<<"Content-Type", Str("application/json")>>},
                                  !.active = Cardinality(ActiveIDs)]]]
  /\ UNCHANGED <<cfg, sessions, heap, uuids, shut>>

\* the ids still to be handed out are enough for the creates in flight
IDsLeft(max) == uuids + Cardinality({v \in Workers : wk[v].pc = "body"}) < max

\* a POST that passed the validation of handleWHEP or handleWHEPCloud:
\* handleCreate starts to read the body
ServeCreate(w, r, max) ==
  /\ Accepting
  /\ wk[w].pc = "idle"
  /\ withCORS(cfg, r).kind = "create"
  /\ IDsLeft(max)
  /\ wk' = [wk EXCEPT ![w] = [IdleWorker EXCEPT
                                 !.pc = "body", !.req = r,
                                 !.appName = withCORS(cfg, r).appName,
                                 !.streamName = withCORS(cfg, r).streamName,
                                 !.wsURL = withCORS(cfg, r).wsURL]]
  /\ UNCHANGED <<cfg, sessions, heap, uuids, shut>>

\* handleCreate from the end of the body read to the call of Negotiate:
\* the offer checks, then Manager.Create
CreateSession(w) ==
  /\ Alive
  /\ wk[w].pc = "body"
  /\ IF createChecks(wk[w].req).status # 0
     THEN /\ wk' = [wk EXCEPT ![w] = Done(w, createChecks(wk[w].req))]
          /\ UNCHANGED <<sessions, heap, uuids>>
     ELSE LET id == NewID(uuids + 1)
              sess == [NewSession(id, wk[w].appName, wk[w].streamName, wk[w].wsURL)
                         EXCEPT !.onStop = TRUE]
          IN /\ uuids' = uuids + 1
             /\ heap' = (id :> sess) @@ heap
             /\ sessions' = Create(id)
             /\ wk' = [wk EXCEPT ![w].pc = "dial", ![w].sessionID = id,
                                 ![w].offer = LimitRead(wk[w].req.body, BodyCap)]
  /\ UNCHANGED <<cfg, shut>>

\* handleSessionOp: Manager.Get, then the method switch.  A PATCH is
\* handled to the end; a DELETE goes on to Manager.Remove.
ServeSessionOp(w, r) ==
  /\ Accepting
  /\ wk[w].pc = "idle"
  /\ withCORS(cfg, r).kind = "sessionOp"
  /\ LET id == withCORS(cfg, r).sessionID
         start == [IdleWorker EXCEPT !.req = r, !.sessionID = id, !.found = Get(id)]
     IN IF ~Get(id)
        THEN /\ wk' = [wk EXCEPT ![w] = [start EXCEPT
                         !.pc = "done",
                         !.resp = HttpError(Str("session not found"), StatusNotFound)]]
             /\ heap' = heap
        ELSE IF r.method = "PATCH"
        THEN /\ wk' = [wk EXCEPT ![w] = [start EXCEPT
                         !.pc = "done", !.resp = handleICECandidate(r, heap[id]).resp]]
             /\ heap' = [heap EXCEPT ![id] = handleICECandidate(r, heap[id]).session]
        ELSE IF r.method = "DELETE"
        THEN /\ wk' = [wk EXCEPT ![w] = [start EXCEPT !.pc = "remove"]]
             /\ heap' = heap
        ELSE /\ wk' = [wk EXCEPT ![w] = [start EXCEPT
                         !.pc = "done",
                         !.resp = IF r.method = "OPTIONS" THEN writeWHEPOptions
                                  ELSE HttpError(Str("method not allowed"),
                                                 StatusMethodNotAllowed)]]
             /\ heap' = heap
  /\ UNCHANGED <<cfg, sessions, uuids, shut>>

\* the DELETE case of handleSessionOp: Manager.Remove, then 200
DeleteRemove(w) ==
  /\ Alive
  /\ wk[w].pc = "remove"
  /\ sessions' = Remove(wk[w].sessionID).sessions
  /\ heap' = Remove(wk[w].sessionID).heap
  /\ wk' = [wk EXCEPT ![w] = Done(w, WriteHeader(StatusOK))]
  /\ UNCHANGED <<cfg, uuids, shut>>

\* the response is on the wire; the worker takes the next request
Finish(w) ==
  /\ Alive
  /\ wk[w].pc = "done"
  /\ wk' = [wk EXCEPT ![w] = IdleWorker]
  /\ UNCHANGED <<cfg, sessions, heap, uuids, shut>>

(***************************************************************************)
(* session.go: Session.Negotiate, one action per blocking call.            *)
(* "defer conn.Close()" runs in the action in which Negotiate returns.     *)
(***************************************************************************)
\* a Negotiate that starts over after an error
FailedAndRetried(w, err) == [wk[w] EXCEPT !.pc = "dial", !.err = <<>>]

\* Negotiate returns err
Failed(w, err) == [wk[w] EXCEPT !.pc = "returned", !.err = err]

\* a Negotiate without the deferred Close: the WebSocket is left as it is
LeftOpen(h, id) == h

\* the deferred conn.Close() of session id, in the heap h
Closed(h, id) == [h EXCEPT ![id].conn = "closed"]

\* a faulty WriteJSON: the frame goes out twice
WriteJSONTwice(h, id, req) ==
  [h EXCEPT ![id].frames = Append(Append(@, Frame("write", req.command, req.sessionID, NoResponse)),
                                  Frame("write", req.command, req.sessionID, NoResponse))]

\* conn.WriteJSON(&req): one frame to Wowza
WriteJSON(h, id, req) ==
  [h EXCEPT ![id].frames = Append(@, Frame("write", req.command, req.sessionID, NoResponse))]

\* conn.ReadJSON(&resp): one frame from Wowza, the answer to command
ReadJSON(h, id, command, resp) ==
  [h EXCEPT ![id].frames = Append(@, Frame("read", command, resp.sessionID, resp))]

\* getOfferReq: StreamInfo carries no SessionID
getOfferReq(sess) == [command |-> "getOffer", sessionID |-> <<>>]

\* a faulty sendRespReq: the SessionID is left empty
sendRespReqFresh(sess) == [command |-> "sendResponse", sessionID |-> <<>>]

\* sendRespReq: StreamInfo.SessionID is s.wowzaSessionID
sendRespReq(sess) == [command |-> "sendResponse", sessionID |-> sess.wowzaSessionID]

\* a faulty error text: the statusDescription is dropped
WowzaErrorBare(statusDescription) == <<"wowza error">>

\* fmt.Errorf("wowza error: %s", resp.StatusDescription)
WowzaError(statusDescription) == <<"wowza error", ": ">> \o statusDescription

\* resp.Status < 200 || resp.Status >= 300
NonOK(resp) == resp.status < 200 \/ resp.status >= 300

\* dialer.HandshakeTimeout: timeout / 2
HandshakeTimeout == WsTimeout \div 2

\* deadline := time.Now().Add(timeout), now being the time since Negotiate
\* was called
deadlineAfterDial(now) == now + WsTimeout

\* dialer.DialContext, and after a successful dial the deadline of every
\* read and write
Dial(w, err) ==
  /\ Alive
  /\ wk[w].pc = "dial"
  /\ IF err # <<>>
     THEN /\ wk' = [wk EXCEPT ![w] = Failed(w, <<"websocket dial: ">> \o err)]
          /\ heap' = [heap EXCEPT ![wk[w].sessionID].dialed = heap[wk[w].sessionID].wsURL,
                                  ![wk[w].sessionID].dials = @ + 1]
     ELSE /\ heap' = [heap EXCEPT ![wk[w].sessionID].dialed = heap[wk[w].sessionID].wsURL,
                                  ![wk[w].sessionID].dials = @ + 1,
                                  ![wk[w].sessionID].conn = "open"]
          /\ wk' = [wk EXCEPT ![w].pc = "getOffer",
                               ![w].deadline = deadlineAfterDial(wk[w].clock)]
  /\ UNCHANGED <<cfg, sessions, uuids, shut>>

\* Step 1: conn.WriteJSON(&getOfferReq)
SendGetOffer(w, err) ==
  /\ Alive
  /\ wk[w].pc = "getOffer"
  /\ LET id == wk[w].sessionID IN
     IF err # <<>>
     THEN /\ wk' = [wk EXCEPT ![w] = Failed(w, <<"send getOffer: ">> \o err)]
          /\ heap' = Closed(heap, id)
     ELSE /\ heap' = WriteJSON(heap, id, getOfferReq(heap[id]))
          /\ wk' = [wk EXCEPT ![w].pc = "readOffer"]
  /\ UNCHANGED <<cfg, sessions, uuids, shut>>

\* Step 2 and 3: conn.ReadJSON(&offerResp), the status and SDP checks,
\* s.wowzaSessionID, CreateAnswerForWowza
ReadOffer(w, err, offerResp) ==
  /\ Alive
  /\ wk[w].pc = "readOffer"
  /\ LET id == wk[w].sessionID IN
     IF err # <<>>
     THEN /\ wk' = [wk EXCEPT ![w] = Failed(w, <<"read getOffer response: ">> \o err)]
          /\ heap' = Closed(heap, id)
     ELSE LET read == ReadJSON(heap, id, "getOffer", offerResp)
              stored == [read EXCEPT ![id].wowzaSessionID = offerResp.sessionID]
              answerErr == CreateAnswerForWowzaErr(offerResp.sdp, wk[w].offer)
          IN IF NonOK(offerResp)
             THEN /\ wk' = [wk EXCEPT ![w] = Failed(w, WowzaError(offerResp.statusDescription))]
                  /\ heap' = Closed(read, id)
             ELSE IF offerResp.sdp = <<>>
             THEN /\ wk' = [wk EXCEPT ![w] = Failed(w, Str("wowza returned empty SDP offer"))]
                  /\ heap' = Closed(read, id)
             ELSE IF answerErr # <<>>
             THEN /\ wk' = [wk EXCEPT ![w] =
                              Failed(w, <<"create answer for wowza: ">> \o answerErr)]
                  /\ heap' = Closed(stored, id)
             ELSE /\ wk' = [wk EXCEPT ![w].pc = "sendResponse",
                                      ![w].wowzaOffer = offerResp.sdp,
                                      ![w].answerForWowza =
                                         CreateAnswerForWowza(offerResp.sdp, wk[w].offer)]
                  /\ heap' = stored
  /\ UNCHANGED <<cfg, sessions, uuids, shut>>

\* Step 4: conn.WriteJSON(&sendRespReq)
SendResponse(w, err) ==
  /\ Alive
  /\ wk[w].pc = "sendResponse"
  /\ LET id == wk[w].sessionID IN
     IF err # <<>>
     THEN /\ wk' = [wk EXCEPT ![w] = Failed(w, <<"send sendResponse: ">> \o err)]
          /\ heap' = Closed(heap, id)
     ELSE /\ heap' = WriteJSON(heap, id, sendRespReq(heap[id]))
          /\ wk' = [wk EXCEPT ![w].pc = "readCandidates"]
  /\ UNCHANGED <<cfg, sessions, uuids, shut>>

\* Step 5 and 6: conn.ReadJSON(&candidatesResp), the status check,
\* CreateAnswerForClient, return
ReadCandidates(w, err, candidatesResp) ==
  /\ Alive
  /\ wk[w].pc = "readCandidates"
  /\ LET id == wk[w].sessionID IN
     IF err # <<>>
     THEN /\ wk' = [wk EXCEPT ![w] = Failed(w, <<"read sendResponse response: ">> \o err)]
          /\ heap' = Closed(heap, id)
     ELSE LET read == ReadJSON(heap, id, "sendResponse", candidatesResp)
              answerErr == CreateAnswerForClientErr(wk[w].wowzaOffer, wk[w].offer,
                                                    candidatesResp.cands)
          IN /\ heap' = Closed(read, id)
             /\ IF NonOK(candidatesResp)
                THEN wk' = [wk EXCEPT ![w] =
                              Failed(w, WowzaError(candidatesResp.statusDescription))]
                ELSE IF answerErr # <<>>
                THEN wk' = [wk EXCEPT ![w] =
                              Failed(w, <<"create answer for client: ">> \o answerErr)]
                ELSE wk' = [wk EXCEPT ![w].pc = "returned",
                                      ![w].answer = CreateAnswerForClient(wk[w].wowzaOffer,
                                                      wk[w].offer, candidatesResp.cands)]
  /\ UNCHANGED <<cfg, sessions, uuids, shut>>

(***************************************************************************)
(* server.go: handleCreate after Negotiate has returned                    *)
(***************************************************************************)
\* err != nil: Manager.Remove, then 502
CreateFailed(w) ==
  /\ Alive
  /\ wk[w].pc = "returned"
  /\ wk[w].err # <<>>
  /\ sessions' = Remove(wk[w].sessionID).sessions
  /\ heap' = Remove(wk[w].sessionID).heap
  /\ wk' = [wk EXCEPT ![w] =
              Done(w, HttpError(IF Contains(wk[w].err, <<"wowza error">>)
                                THEN wk[w].err
                                ELSE Str("signaling failed"),
                                StatusBadGateway))]
  /\ UNCHANGED <<cfg, uuids, shut>>

\* a handler that takes the session out of the registry when it answers 201
CreateSucceededAndRemoved(w) ==
  /\ Alive
  /\ wk[w].pc = "returned"
  /\ wk[w].err = <<>>
  /\ sessions' = sessions \ {wk[w].sessionID}
  /\ wk' = [wk EXCEPT ![w] = Done(w, [WriteHeader(StatusCreated) EXCEPT !.answer = wk[w].answer])]
  /\ UNCHANGED <<cfg, heap, uuids, shut>>

\* err == nil: 201 with the answer and the Location
CreateSucceeded(w) ==
  /\ Alive
  /\ wk[w].pc = "returned"
  /\ wk[w].err = <<>>
  /\ LET resourcePath == PathJoin(wk[w].req.path, wk[w].sessionID) IN
     wk' = [wk EXCEPT ![w] =
              Done(w, [status |-> StatusCreated, msg |-> <<>>,
                       hdr |-> CORSHeaders \cup
                               { <<"Content-Type", Str("application/sdp")>>,
                                 <<"Location", resourcePath>>,
                                 <<"Accept-Patch", Str("application/trickle-ice-sdpfrag")>>,
                                 <<"Link", <<"<">> \o resourcePath \o <<">; rel=\"ice-server\"">> >> },
                       answer |-> wk[w].answer, active |-> -1])]
  /\ UNCHANGED <<cfg, sessions, heap, uuids, shut>>

(***************************************************************************)
(* session.go: Session.Stop, run by the goroutine g of session id          *)
(* (g = "goRemove" or "goShutdown").                                       *)
(***************************************************************************)
StopGoroutines == {"goRemove", "goShutdown", "goCaller"}

\* a holder of the session calls its exported method Stop
CallStop(id) ==
  /\ Alive
  /\ heap[id].goCaller = "none"
  /\ heap' = [heap EXCEPT ![id].goCaller = "go"]
  /\ UNCHANGED <<cfg, sessions, uuids, wk, shut>>

\* a Stop without the once: every caller runs the function
StopEnterEveryTime(id, g) ==
  /\ Alive
  /\ heap[id][g] = "go"
  /\ \A h \in StopGoroutines : heap[id][h] # "callback"
  /\ heap' = [heap EXCEPT ![id].stopOnce = "running", ![id].stopped = TRUE,
                            ![id][g] = "callback"]
  /\ UNCHANGED <<cfg, sessions, uuids, wk, shut>>

\* stopOnce.Do: the first caller sets the stopped flag under s.mu; a
\* caller that finds the once done returns; one that finds it running
\* waits
StopEnterClosing(id, g) ==
  /\ Alive
  /\ heap[id][g] = "go"
  /\ heap[id].stopOnce # "running"
  /\ IF heap[id].stopOnce = "new"
     THEN heap' = [heap EXCEPT ![id].stopOnce = "running", ![id].stopped = TRUE,
                               ![id].conn = IF @ = "open" THEN "closed" ELSE @,
                               ![id][g] = "callback"]
     ELSE heap' = [heap EXCEPT ![id][g] = "returned"]
  /\ UNCHANGED <<cfg, sessions, uuids, wk, shut>>

StopEnter(id, g) ==
  /\ Alive
  /\ heap[id][g] = "go"
  /\ heap[id].stopOnce # "running"
  /\ IF heap[id].stopOnce = "new"
     THEN heap' = [heap EXCEPT ![id].stopOnce = "running", ![id].stopped = TRUE,
                               ![id][g] = "callback"]
     ELSE heap' = [heap EXCEPT ![id][g] = "returned"]
  /\ UNCHANGED <<cfg, sessions, uuids, wk, shut>>

\* a faulty onSessionStopped: it empties the registry
onSessionStoppedClears(id) == {}

\* Manager.onSessionStopped: delete(m.sessions, id) under the lock
onSessionStopped(id) == sessions \ {id}

\* the rest of the function given to stopOnce.Do: s.onStop(s.id)
StopCallback(id, g) ==
  /\ Alive
  /\ heap[id][g] = "callback"
  /\ IF heap[id].onStop
     THEN /\ sessions' = onSessionStopped(id)
          /\ heap' = [heap EXCEPT ![id].callbacks = @ + 1, ![id].stopOnce = "done",
                                  ![id][g] = "returned"]
     ELSE /\ sessions' = sessions
          /\ heap' = [heap EXCEPT ![id].stopOnce = "done", ![id][g] = "returned"]
  /\ UNCHANGED <<cfg, uuids, wk, shut>>

(***************************************************************************)
(* server.go: Server.Start on cancellation, Server.Stop;                   *)
(* manager.go: Manager.Shutdown; main.go: the exit of the process.         *)
(***************************************************************************)
\* SIGINT/SIGTERM: Start calls Stop with a 10 s context; http.Server's
\* Shutdown closes the listeners
Cancel ==
  /\ shut.pc = "serving"
  /\ shut' = [shut EXCEPT !.pc = "httpShutdown"]
  /\ UNCHANGED <<cfg, sessions, heap, uuids, wk>>

\* the 10 s of shutdownCtx elapse
CtxDeadline ==
  /\ shut.pc \in {"httpShutdown", "mgrShutdown", "snapshot", "wait"}
  /\ ~shut.ctxDone
  /\ shut' = [shut EXCEPT !.ctxDone = TRUE]
  /\ UNCHANGED <<cfg, sessions, heap, uuids, wk>>

\* s.server.Shutdown(ctx) returns: every connection is idle, or ctx is done
HttpShutdownReturns ==
  /\ shut.pc = "httpShutdown"
  /\ \/ \A w \in Workers : wk[w].pc = "idle"
     \/ shut.ctxDone
  /\ shut' = [shut EXCEPT !.pc = "mgrShutdown"]
  /\ UNCHANGED <<cfg, sessions, heap, uuids, wk>>

\* Manager.Shutdown under m.mu: snapshot the map and replace it by an
\* empty one
ShutdownSnapshot ==
  /\ shut.pc = "mgrShutdown"
  /\ sessions' = {}
  /\ shut' = [shut EXCEPT !.pc = "snapshot", !.snapshot = sessions]
  /\ UNCHANGED <<cfg, heap, uuids, wk>>

\* Manager.Shutdown from the unlock to the select: return nil if the
\* snapshot is empty, else one goroutine per session
ShutdownStops ==
  /\ shut.pc = "snapshot"
  /\ IF shut.snapshot = {}
     THEN /\ shut' = [shut EXCEPT !.pc = "returned", !.result = "nil"]
          /\ heap' = heap
     ELSE /\ shut' = [shut EXCEPT !.pc = "wait"]
          /\ heap' = [id \in DOMAIN heap |->
                        IF id \in shut.snapshot
                        THEN [heap[id] EXCEPT !.goShutdown = "go"]
                        ELSE heap[id]]
  /\ UNCHANGED <<cfg, sessions, uuids, wk>>

\* a Shutdown that does not wait for its goroutines
ShutdownDoneAtOnce ==
  /\ shut.pc = "wait"
  /\ shut' = [shut EXCEPT !.pc = "returned", !.result = "nil"]
  /\ UNCHANGED <<cfg, sessions, heap, uuids, wk>>

\* case <-done: wg.Wait() returned, every Stop of the snapshot has
ShutdownDone ==
  /\ shut.pc = "wait"
  /\ \A id \in shut.snapshot : heap[id].goShutdown = "returned"
  /\ shut' = [shut EXCEPT !.pc = "returned", !.result = "nil"]
  /\ UNCHANGED <<cfg, sessions, heap, uuids, wk>>

\* case <-ctx.Done(): return ctx.Err()
ShutdownDeadline ==
  /\ shut.pc = "wait"
  /\ shut.ctxDone
  /\ shut' = [shut EXCEPT !.pc = "returned", !.result = "deadline exceeded"]
  /\ UNCHANGED <<cfg, sessions, heap, uuids, wk>>

\* main returns or calls os.Exit: every goroutine ends
Exit ==
  /\ shut.pc = "returned"
  /\ shut' = [shut EXCEPT !.pc = "exited"]
  /\ UNCHANGED <<cfg, sessions, heap, uuids, wk>>

(***************************************************************************)
(* Specifications.  An environment E names the HTTP workers that serve     *)
(* requests, the requests clients send and what the network and Wowza do:  *)
(* the errors of the dial, of a write and of a read (<<>> is success) and  *)
(* the responses Wowza sends.                                              *)
(***************************************************************************)
\* the create path: the router, handleCreate, Negotiate and Session.Stop
\* a time limit for the dial only: the deadline of the reads and writes is
\* never reached
TimeLimitOfDial(w) == IF wk[w].pc = "dial" THEN HandshakeTimeout ELSE -1

\* the time a blocking call of the Negotiate of worker w may still take:
\* the dial gives up at the HandshakeTimeout, a read or a write at the
\* deadline set after the dial
TimeLimit(w) == IF wk[w].pc = "dial" THEN HandshakeTimeout ELSE wk[w].deadline

\* err is a timeout of the network library
IsTimeout(err) == err # <<>> /\ err[Len(err)] \in {"dial tcp: i/o timeout",
                                                  "write tcp: i/o timeout",
                                                  "read tcp: i/o timeout"}

\* one tick passes while the Negotiate of worker w is blocked in a call
Tick(w) ==
  /\ Alive
  /\ wk[w].pc \in {"dial", "getOffer", "readOffer", "sendResponse", "readCandidates"}
  /\ wk[w].clock < TimeLimit(w)
  /\ wk' = [wk EXCEPT ![w].clock = @ + 1]
  /\ UNCHANGED <<cfg, sessions, heap, uuids, shut>>

\* a call of Negotiate returns a timeout when its time limit is reached,
\* and not before
OnTime(E) ==
  \A w \in E.workers :
    (wk[w].err = <<>> /\ IsTimeout(wk'[w].err)) => wk[w].clock = TimeLimit(w)

NextCreate(E) ==
  \/ \E w \in E.workers, r \in E.requests : ServeRespond(w, r)
  \/ \E w \in E.workers, r \in E.requests : ServeCreate(w, r, E.maxSessions)
  \/ \E w \in E.workers : CreateSession(w)
  \/ \E w \in E.workers, err \in {<<>>} \cup E.dialCauses : Dial(w, err)
  \/ \E w \in E.workers, err \in {<<>>} \cup E.writeCauses : SendGetOffer(w, err)
  \/ \E w \in E.workers, err \in E.readCauses : ReadOffer(w, err, NoResponse)
  \/ \E w \in E.workers, m \in E.offers : ReadOffer(w, <<>>, m)
  \/ \E w \in E.workers, err \in {<<>>} \cup E.writeCauses : SendResponse(w, err)
  \/ \E w \in E.workers, err \in E.readCauses : ReadCandidates(w, err, NoResponse)
  \/ \E w \in E.workers, m \in E.candidates : ReadCandidates(w, <<>>, m)
  \/ \E w \in E.workers : CreateFailed(w)
  \/ \E w \in E.workers : CreateSucceeded(w)
  \/ \E w \in E.workers : Finish(w)
  \/ \E id \in DOMAIN heap, g \in StopGoroutines : StopEnter(id, g)
  \/ \E id \in DOMAIN heap, g \in StopGoroutines : StopCallback(id, g)

\* the requests on a session and /stats
\* the creates with the time they take: a timeout comes when the time limit
\* of the call is reached
NextTimed(E) ==
  \/ NextCreate(E) /\ OnTime(E)
  \/ \E w \in E.workers : Tick(w)

\* the blocking call of the Negotiate of worker w times out
Expire(E, w) ==
  /\ wk[w].clock = TimeLimit(w)
  /\ \/ \E err \in E.dialCauses : IsTimeout(err) /\ Dial(w, err)
     \/ \E err \in E.writeCauses : IsTimeout(err) /\ SendGetOffer(w, err)
     \/ \E err \in E.readCauses : IsTimeout(err) /\ ReadOffer(w, err, NoResponse)
     \/ \E err \in E.writeCauses : IsTimeout(err) /\ SendResponse(w, err)
     \/ \E err \in E.readCauses : IsTimeout(err) /\ ReadCandidates(w, err, NoResponse)

\* the steps of handleCreate after Negotiate has returned: they wait for
\* nothing outside the process
HandlerStep(w) == CreateFailed(w) \/ CreateSucceeded(w)

NextSessionOps(E) ==
  \/ \E w \in E.workers, r \in E.requests : ServeStats(w, r)
  \/ \E w \in E.workers, r \in E.requests : ServeSessionOp(w, r)
  \/ \E w \in E.workers : DeleteRemove(w)

\* the graceful shutdown
NextShutdown ==
  \/ Cancel
  \/ CtxDeadline
  \/ HttpShutdownReturns
  \/ ShutdownSnapshot
  \/ ShutdownStops
  \/ ShutdownDone
  \/ ShutdownDeadline
  \/ Exit

\* a second static path: other codec, application and stream
(***************************************************************************)
(* manager.go: Manager.mu.  shut.mu names the goroutine that holds the     *)
(* write side and where it stood when it took it.  The specifications      *)
(* above run every section under the lock as one step; NextLocked runs     *)
(* Lock, the section and Unlock as three.  A read section (Get, ActiveIDs, *)
(* Stats) stays one step, taken while nobody holds the write side.         *)
(***************************************************************************)
\* the goroutines that take the write side: an HTTP worker, a goroutine of
\* Session.Stop, Manager.Shutdown
WorkerHolder(w) == [kind |-> "worker", w |-> w, id |-> <<>>, g |-> ""]

StopHolder(id, g) == [kind |-> "stop", w |-> 0, id |-> id, g |-> g]

ShutdownHolder == [kind |-> "shutdown", w |-> 0, id |-> <<>>, g |-> ""]

\* where goroutine h stands
Position(h) ==
  CASE h.kind = "worker" -> wk[h.w].pc
    [] h.kind = "stop" -> heap[h.id][h.g]
    [] h.kind = "shutdown" -> shut.pc

\* the next thing goroutine h does is m.mu.Lock(): in Manager.Create, in
\* Manager.Remove, in onSessionStopped, in Manager.Shutdown
AtLock(h) ==
  CASE h.kind = "worker" ->
         \/ wk[h.w].pc = "body" /\ createChecks(wk[h.w].req).status = 0
         \/ wk[h.w].pc = "remove"
         \/ wk[h.w].pc = "returned" /\ wk[h.w].err # <<>>
    [] h.kind = "stop" -> heap[h.id][h.g] = "callback" /\ heap[h.id].onStop
    [] h.kind = "shutdown" -> shut.pc = "mgrShutdown"

\* goroutine h holds the write side
Holds(h) == [k \in {"kind", "w", "id", "g"} |-> shut.mu[k]] = h

\* goroutine h holds the write side and has not yet run its section
Holding(h) == Holds(h) /\ Position(h) = shut.mu.at

\* goroutine h runs a step outside the lock: a section it needs the lock
\* for is not among these steps
Outside(h) == ~Holds(h) /\ ~AtLock(h)

\* an Unlock that comes after the goroutines of the session have stopped:
\* Manager.Shutdown keeps the lock until it returns
UnlockAtReturn(h) ==
  IF h.kind = "shutdown" THEN shut.pc = "returned" ELSE Position(h) # shut.mu.at

\* m.mu.Unlock() comes right after the section: the deferred Unlock of
\* Create, the Unlock of Remove before "go sess.Stop()", of
\* onSessionStopped, of Shutdown before its goroutines
UnlockAfterSection(h) == Position(h) # shut.mu.at

\* m.mu.Lock()
Lock(h) ==
  /\ Alive
  /\ shut.mu = NoLock
  /\ AtLock(h)
  /\ shut' = [shut EXCEPT !.mu = [kind |-> h.kind, w |-> h.w, id |-> h.id, g |-> h.g,
                                  at |-> Position(h)]]
  /\ UNCHANGED <<cfg, sessions, heap, uuids, wk>>

\* m.mu.Unlock()
Unlock(h) ==
  /\ Alive
  /\ Holds(h)
  /\ UnlockAfterSection(h)
  /\ shut' = [shut EXCEPT !.mu = NoLock]
  /\ UNCHANGED <<cfg, sessions, heap, uuids, wk>>

\* m.mu.RLock() succeeds: nobody holds the write side
Readable == shut.mu = NoLock

\* "go sess.Stop()" of Manager.Remove comes after its Unlock
Spawned(id, g) ==
  g = "goRemove" =>
    ~(shut.mu.kind = "worker" /\ wk[shut.mu.w].sessionID = id /\ wk[shut.mu.w].pc = "done")

\* the requests for the manager worker w takes up, those that read the
\* registry while nobody holds the write side
WorkerServes(E, w) ==
  \/ \E r \in E.requests : ServeCreate(w, r, E.maxSessions) /\ Outside(WorkerHolder(w))
  \/ \E r \in E.requests : ServeStats(w, r) /\ Outside(WorkerHolder(w)) /\ Readable
  \/ \E r \in E.requests : ServeSessionOp(w, r) /\ Outside(WorkerHolder(w)) /\ Readable

\* the steps of worker w on the request it has taken up, Wowza answering
WorkerRuns(E, w) ==
  \/ Lock(WorkerHolder(w))
  \/ Unlock(WorkerHolder(w))
  \/ CreateSession(w) /\ (Holding(WorkerHolder(w)) \/ Outside(WorkerHolder(w)))
  \/ Dial(w, <<>>) /\ Outside(WorkerHolder(w))
  \/ SendGetOffer(w, <<>>) /\ Outside(WorkerHolder(w))
  \/ \E r \in E.offers : ReadOffer(w, <<>>, r) /\ Outside(WorkerHolder(w))
  \/ SendResponse(w, <<>>) /\ Outside(WorkerHolder(w))
  \/ \E r \in E.candidates : ReadCandidates(w, <<>>, r) /\ Outside(WorkerHolder(w))
  \/ CreateFailed(w) /\ Holding(WorkerHolder(w))
  \/ CreateSucceeded(w) /\ Outside(WorkerHolder(w))
  \/ DeleteRemove(w) /\ Holding(WorkerHolder(w))
  \/ Finish(w) /\ Outside(WorkerHolder(w))

\* the steps of goroutine g of session id: Session.Stop and its callback
StopRuns(id, g) ==
  /\ id \in DOMAIN heap
  /\ \/ Lock(StopHolder(id, g))
     \/ Unlock(StopHolder(id, g))
     \/ StopEnter(id, g) /\ Outside(StopHolder(id, g)) /\ Spawned(id, g)
     \/ StopCallback(id, g) /\ (Holding(StopHolder(id, g)) \/ Outside(StopHolder(id, g)))

\* the steps of Server.Stop and Manager.Shutdown up to their return
ShutdownRuns ==
  \/ Lock(ShutdownHolder)
  \/ Unlock(ShutdownHolder)
  \/ HttpShutdownReturns /\ Outside(ShutdownHolder)
  \/ ShutdownSnapshot /\ Holding(ShutdownHolder)
  \/ ShutdownStops /\ Outside(ShutdownHolder)
  \/ ShutdownDone /\ Outside(ShutdownHolder)
  \/ ShutdownDeadline /\ Outside(ShutdownHolder)

\* the ids a specification bounded by MaxCreates hands out
LockIDs == {NewID(n) : n \in 1..MaxCreates}

\* the steps of the gateway, those under Manager.mu between a Lock and an
\* Unlock, up to the return of Server.Stop
NextLocked(E) ==
  \/ \E w \in E.workers : WorkerServes(E, w)
  \/ \E w \in E.workers : WorkerRuns(E, w)
  \/ \E id \in LockIDs, g \in StopGoroutines : StopRuns(id, g)
  \/ Cancel
  \/ CtxDeadline
  \/ ShutdownRuns

(***************************************************************************)
(* The accesses to Session.wowzaSessionID, a string of two words that no   *)
(* lock guards: the store of Negotiate (session.go 101) takes time, and    *)
(* the load of Session.Stats, made under the read side of Manager.mu only, *)
(* can come while the store is under way.                                  *)
(***************************************************************************)
\* a string whose pointer and length come from two different stores
Torn == <<"torn">>

\* Negotiate up to the store: the offer is read and has passed the checks
\* of its status and its SDP
ReadOfferToStore(w, offerResp) ==
  /\ Alive
  /\ wk[w].pc = "readOffer"
  /\ ~NonOK(offerResp)
  /\ offerResp.sdp # <<>>
  /\ heap' = ReadJSON(heap, wk[w].sessionID, "getOffer", offerResp)
  /\ wk' = [wk EXCEPT ![w].pc = "storeID", ![w].storing = <<offerResp>>]
  /\ UNCHANGED <<cfg, sessions, uuids, shut>>

\* the store is done; Negotiate goes on with CreateAnswerForWowza
StoreSessionID(w) ==
  /\ Alive
  /\ wk[w].pc = "storeID"
  /\ LET id == wk[w].sessionID
         offerResp == wk[w].storing[1]
         stored == [heap EXCEPT ![id].wowzaSessionID = offerResp.sessionID]
         answerErr == CreateAnswerForWowzaErr(offerResp.sdp, wk[w].offer)
     IN IF answerErr # <<>>
        THEN /\ wk' = [wk EXCEPT ![w] =
                         [Failed(w, <<"create answer for wowza: ">> \o answerErr)
                            EXCEPT !.storing = <<>>]]
             /\ heap' = Closed(stored, id)
        ELSE /\ wk' = [wk EXCEPT ![w].pc = "sendResponse",
                                 ![w].storing = <<>>,
                                 ![w].wowzaOffer = offerResp.sdp,
                                 ![w].answerForWowza =
                                    CreateAnswerForWowza(offerResp.sdp, wk[w].offer)]
             /\ heap' = stored
  /\ UNCHANGED <<cfg, sessions, uuids, shut>>

\* the stores of wowzaSessionID of session id that are under way
StoresOf(id) == {v \in Workers : wk[v].pc = "storeID" /\ wk[v].sessionID = id}

\* the load Session.Stats makes of the field of session id.  Without a
\* store under way it gives what the field holds; during a store it gives
\* the old string, the new one, or the words of both.
LoadSessionID(id) ==
  IF StoresOf(id) = {}
  THEN {[value |-> heap[id].wowzaSessionID, during |-> FALSE]}
  ELSE {[value |-> v, during |-> TRUE] :
          v \in {heap[id].wowzaSessionID, Torn}
                \cup {wk[s].storing[1].sessionID : s \in StoresOf(id)}}

\* handleStats: Manager.Stats calls Session.Stats for every session of the
\* registry
ServeStatsLoads(w, r) ==
  /\ Accepting
  /\ wk[w].pc = "idle"
  /\ withCORS(cfg, r).kind = "stats"
  /\ r.method = "GET"
  /\ \E loaded \in [sessions -> UNION {LoadSessionID(id) : id \in sessions}] :
       /\ \A id \in sessions : loaded[id] \in LoadSessionID(id)
       /\ wk' = [wk EXCEPT ![w] =
                   [IdleWorker EXCEPT
                      !.pc = "done", !.req = r, !.stats = loaded,
                      !.resp = [WriteHeader(StatusOK) EXCEPT
                                  !.hdr = @ \cup {<<"Content-Type", Str("application/json")>>},
                                  !.active = Cardinality(ActiveIDs)]]]
  /\ UNCHANGED <<cfg, sessions, heap, uuids, shut>>

\* the creates and GET /stats, the store of Negotiate taking time
NextRacy(E) ==
  \/ \E w \in E.workers, r \in E.requests : ServeCreate(w, r, E.maxSessions)
  \/ \E w \in E.workers, r \in E.requests : ServeStatsLoads(w, r)
  \/ \E w \in E.workers : CreateSession(w)
  \/ \E w \in E.workers : Dial(w, <<>>)
  \/ \E w \in E.workers : SendGetOffer(w, <<>>)
  \/ \E w \in E.workers, m \in E.offers :
       (NonOK(m) \/ m.sdp = <<>>) /\ ReadOffer(w, <<>>, m)
  \/ \E w \in E.workers, m \in E.offers : ReadOfferToStore(w, m)
  \/ \E w \in E.workers : StoreSessionID(w)
  \/ \E w \in E.workers : SendResponse(w, <<>>)
  \/ \E w \in E.workers, m \in E.candidates : ReadCandidates(w, <<>>, m)
  \/ \E w \in E.workers : CreateFailed(w)
  \/ \E w \in E.workers : CreateSucceeded(w)
  \/ \E w \in E.workers : Finish(w)
  \/ \E id \in DOMAIN heap, g \in StopGoroutines : StopEnter(id, g)
  \/ \E id \in DOMAIN heap, g \in StopGoroutines : StopCallback(id, g)

StaticPath2 == <<"/", "whep", "/", "VP8", "/", "demo", "/", "zz">>

CreateRequests ==
  {r \in Requests : r.method = "POST"}
  \cup {Request("POST", StaticPath2, SdpCT, ClientOffer)}
  \cup {Request("OPTIONS", StaticPath, <<>>, <<>>)}

\* the answers of Wowza in the specifications that are not about them
FewOffers ==
  { WowzaResponse(200, <<>>, Str("wz-1"), GoodOffer, <<>>),
    WowzaResponse(404, Str("stream not found"), <<>>, <<>>, <<>>) }

FewCandidates == { WowzaResponse(200, <<>>, <<>>, <<>>, <<Candidate1>>) }

\* one create at a time, with everything the network and Wowza can do
Sequential ==
  [workers |-> {1}, requests |-> CreateRequests, maxSessions |-> MaxCreates,
   dialCauses |-> DialCauses, writeCauses |-> WriteCauses, readCauses |-> ReadCauses,
   offers |-> OfferResponses, candidates |-> CandidatesResponses]

\* one request at a time, every request; the network does not fail
Router ==
  [workers |-> {1}, requests |-> Requests, maxSessions |-> MaxSessions,
   dialCauses |-> {}, writeCauses |-> {}, readCauses |-> {},
   offers |-> FewOffers, candidates |-> FewCandidates]

\* the requests of the concurrent specification: a create, the operations
\* on the sessions and /stats
ConcRequests ==
  {Request("POST", CloudPath(CloudFQDNHost), SdpCT, ClientOffer),
   Request("DELETE", PathJoin(StaticPath, NewID(1)), <<>>, <<>>),
   Request("PATCH", PathJoin(CloudPath(CloudFQDNHost), NewID(1)), TrickleCT, TrickleBody),
   Request("GET", <<"/", "stats">>, <<>>, <<>>)}
  \cup {Request("DELETE", PathJoin(CloudPath(CloudFQDNHost), id), <<>>, <<>>) : id \in NamedIDs}

\* two requests at a time and the shutdown
Concurrent ==
  [workers |-> Workers, requests |-> ConcRequests, maxSessions |-> MaxCreates,
   dialCauses |-> {}, writeCauses |-> {}, readCauses |-> {},
   offers |-> FewOffers, candidates |-> FewCandidates]

\* the allow-lists of the specification of the host check: none, "*",
\* " * ", one suffix pattern, an exact host and a suffix pattern in upper
\* case, a list that ends in a comma, a list with the entry "*"
AllowLists ==
  { <<>>,
    <<"*">>,
    <<" ", "*", " ">>,
    <<"*", ".">> \o CloudDomain,
    <<"w", ".", "example", ",", " ", "*", ".", "Example", ".", "COM">>,
    <<"w", ".", "example", ",">>,
    <<"w", ".", "example", ",", "*">> }

HostConfigs == {[WowzaWSURL |-> <<>>, AllowedHosts |-> l] : l \in AllowLists}

\* the host segments of the dynamic creates of that specification; the
\* last one is not a valid host
HostNames ==
  { CloudIDHost, CloudFQDNHost, CloudDomain, EvilHost,
    <<"w", ".", "example">>,
    <<"EVIL", ".", "Example", ".", "com">>,
    <<"example", ".", "com">>,
    <<"-", "evil">> }

HostRequests == {Request("POST", CloudPath(h), SdpCT, ClientOffer) : h \in HostNames}

\* dynamic creates, one at a time, for every host and allow-list
Hosts ==
  [workers |-> {1}, requests |-> HostRequests, maxSessions |-> MaxCreates,
   dialCauses |-> {}, writeCauses |-> {}, readCauses |-> {},
   offers |-> FewOffers, candidates |-> FewCandidates]

\* creates the router refuses: codec, application, stream, host syntax,
\* host not allowed (under CloudConfig), Content-Type, empty body, static
\* path without a static URL (under CloudConfig), method
RefusedCreates ==
  { Request("POST", <<"/", "whep", "/", "av1", "/", "live", "/", "demo">>, SdpCT, ClientOffer),
    Request("POST", <<"/", "whep", "/", "h264", "/", "long65", "/", "demo">>, SdpCT, ClientOffer),
    Request("POST", <<"/", "whep", "/", "h264", "/", "live", "/", "demo", "*">>, SdpCT, ClientOffer),
    Request("POST", <<"/", "whep", "/", "cloud", "/", "av1", "/">> \o CloudFQDNHost
                      \o <<"/", "live", "/", "demo">>, SdpCT, ClientOffer),
    Request("POST", <<"/", "whep", "/", "cloud", "/", "h264", "/">> \o CloudFQDNHost
                      \o <<"/", "live", "*", "/", "demo">>, SdpCT, ClientOffer),
    Request("POST", CloudPath(<<"-", "evil">>), SdpCT, ClientOffer),
    Request("POST", CloudPath(EvilHost), SdpCT, ClientOffer),
    Request("POST", StaticPath, TrickleCT, ClientOffer),
    Request("POST", CloudPath(CloudFQDNHost), <<>>, ClientOffer),
    Request("POST", StaticPath, SdpCT, <<>>),
    Request("PUT", StaticPath, SdpCT, ClientOffer),
    Request("DELETE", StaticPath, <<>>, <<>>),
    Request("GET", CloudPath(CloudFQDNHost), <<>>, <<>>) }

\* an offer of more than 64 KiB: the 64 KiB end inside the value of its
\* last line, an attribute the SDP transform does not read
OversizedOffer ==
  SubSeq(ClientOffer, 1, 24)
    \o <<"a=x-pad:", "pad65000", "\r\n">>
    \o SubSeq(ClientOffer, 25, Len(ClientOffer))
    \o <<"a=x-pad:", "pad5000", "\r\n">>

ValidationRequests ==
  { Request("POST", StaticPath, SdpCT, ClientOffer),
    Request("POST", StaticPath, SdpCT, OversizedOffer),
    Request("POST", StaticPath2, SdpCT, ClientOffer),
    Request("POST", CloudPath(CloudFQDNHost), SdpCT, ClientOffer) }
  \cup RefusedCreates

\* creates, good and refused, one at a time
Validation ==
  [workers |-> {1}, requests |-> ValidationRequests, maxSessions |-> MaxSessions,
   dialCauses |-> {}, writeCauses |-> {}, readCauses |-> {},
   offers |-> FewOffers, candidates |-> FewCandidates]

RemovalRequests ==
  {Request("POST", StaticPath, SdpCT, ClientOffer)}
  \cup {Request("DELETE", PathJoin(StaticPath, id), <<>>, <<>>) : id \in NamedIDs}
  \cup {Request("OPTIONS", StaticPath, <<>>, <<>>),
        Request("GET", <<"/", "stats">>, <<>>, <<>>)}

\* creates and DELETEs, two requests at a time
Removals ==
  [workers |-> Workers, requests |-> RemovalRequests, maxSessions |-> MaxSessions,
   dialCauses |-> {}, writeCauses |-> {}, readCauses |-> {},
   offers |-> FewOffers, candidates |-> FewCandidates]

SdpRequests ==
  {Request("POST", StaticPath, SdpCT, o) : o \in {ClientOffer, CandidatesOffer}}

\* creates for every pair of a client offer and an offer of Wowza
Sdp ==
  [workers |-> {1}, requests |-> SdpRequests, maxSessions |-> MaxSessions,
   dialCauses |-> {}, writeCauses |-> {}, readCauses |-> {},
   offers |-> {WowzaResponse(200, <<>>, Str("wz-1"), o, <<>>) : o \in WowzaOffers}
              \cup {WowzaResponse(404, Str("stream not found"), <<>>, <<>>, <<>>)},
   candidates |-> FewCandidates]

\* candidate strings for cleanWowzaCandidate: over TCP with a generation
\* suffix, over tcp with a tcptype and a generation suffix, over UDP with
\* the suffix, plain, over Tcp without suffix, with extensions after the
\* suffix, with two suffixes, with two spaces before the suffix, of two
\* fields, and the empty string
CleanInputs ==
  { <<"candidate:", "1", " ", "1", " ", "TCP", " ", "100", " ", "1.2.3.4", " ", "9", " ",
      "typ", " ", "host", " ", "generation", " ", "0">>,
    <<"candidate:", "2", " ", "1", " ", "tcp", " ", "90", " ", "8.8.4.4", " ", "443", " ",
      "typ", " ", "host", " ", "tcptype", " ", "active", " ", "generation", " ", "0">>,
    <<"candidate:", "1", " ", "1", " ", "UDP", " ", "100", " ", "8.8.4.4", " ", "9", " ",
      "typ", " ", "host", " ", "generation", " ", "0">>,
    <<"candidate:", "3", " ", "1", " ", "udp", " ", "80", " ", "5.6.7.8", " ", "9", " ",
      "typ", " ", "host">>,
    <<"candidate:", "4", " ", "1", " ", "Tcp", " ", "70", " ", "5.6.7.8", " ", "443", " ",
      "typ", " ", "host">>,
    <<"candidate:", "5", " ", "1", " ", "TCP", " ", "60", " ", "5.6.7.8", " ", "443", " ",
      "typ", " ", "host", " ", "generation", " ", "0", " ", "ufrag", " ", "ufragW", " ",
      "network-cost", " ", "50">>,
    <<"candidate:", "6", " ", "1", " ", "UDP", " ", "50", " ", "5.6.7.8", " ", "9", " ",
      "typ", " ", "host", " ", "generation", " ", "0", " ", "generation", " ", "1">>,
    <<"candidate:", "7", " ", "1", " ", "tcp", " ", "40", " ", "5.6.7.8", " ", "9", " ",
      "typ", " ", "host", " ", " ", "generation", " ", "0">>,
    <<"candidate:", "8", " ", "1">>,
    <<>> }

\* the lists of candidates of the specification of the cleaning
CleanLists == {<<WowzaICECandidate(c, <<0>>)>> : c \in CleanInputs}

\* creates whose negotiation gets one candidate of CleanInputs
Cleaning ==
  [workers |-> {1}, requests |-> {Request("POST", StaticPath, SdpCT, ClientOffer)},
   maxSessions |-> MaxSessions,
   dialCauses |-> {}, writeCauses |-> {}, readCauses |-> {},
   offers |-> FewOffers,
   candidates |-> {WowzaResponse(200, <<>>, <<>>, <<>>, l) : l \in CleanLists}]

SpecCleaning == Init /\ [][NextCreate(Cleaning)]_vars

FilterRequests ==
  {Request("POST", StaticPath, SdpCT, o) :
     o \in {ClientOffer, CandidatesOffer, ManyCandidatesOffer, NoUfragOffer}}

\* the offers of Wowza of the specification of the post-processing
FilterOffers ==
  {FullOffer, GoodOffer, TwoCandidatesOffer, SessionCandidatesOffer, TrickleOffer,
   SessionLevelOffer}

\* creates for every client offer and offer of Wowza with candidates
Filtering ==
  [workers |-> {1}, requests |-> FilterRequests, maxSessions |-> MaxSessions,
   dialCauses |-> {}, writeCauses |-> {}, readCauses |-> {},
   offers |-> {WowzaResponse(200, <<>>, Str("wz-1"), o, <<>>) : o \in FilterOffers},
   candidates |-> FewCandidates
                  \cup {WowzaResponse(504, Str("stream timed out"), <<>>, <<>>, <<>>)}]

SpecFilter == Init /\ [][NextCreate(Filtering)]_vars

AnswerRequests ==
  {Request("POST", StaticPath, SdpCT, o) : o \in {ClientOffer, CandidatesOffer, ThreeMediaOffer}}

\* the offers of Wowza of the specification of the answer for the client
AnswerOffers == {FullOffer, GoodOffer, TwoCandidatesOffer, SessionLevelOffer, NoFingerprintOffer}

\* the candidate lists of that specification
CandidateLists ==
  { <<>>, <<Candidate1>>, <<CandidateGeneration, CandidateTcp, CandidateNoIndex>> }

\* creates for every client offer, offer of Wowza and list of candidates
Answering ==
  [workers |-> {1}, requests |-> AnswerRequests, maxSessions |-> MaxSessions,
   dialCauses |-> {}, writeCauses |-> {}, readCauses |-> {},
   offers |-> {WowzaResponse(200, <<>>, Str("wz-1"), o, <<>>) : o \in AnswerOffers},
   candidates |-> {WowzaResponse(200, <<>>, <<>>, <<>>, l) : l \in CandidateLists}
                  \cup {WowzaResponse(504, Str("stream timed out"), <<>>, <<>>, <<>>)}]

SpecAnswers == Init /\ [][NextCreate(Answering)]_vars

Spec == Init /\ [][NextCreate(Sequential)]_vars

\* creates against a Wowza that answers in time, late or never
TimedRequests ==
  {Request("POST", StaticPath, SdpCT, ClientOffer), Request("OPTIONS", StaticPath, <<>>, <<>>)}

Timed ==
  [workers |-> {1}, requests |-> TimedRequests, maxSessions |-> MaxSessions,
   dialCauses |-> DialCauses, writeCauses |-> WriteCauses, readCauses |-> ReadCauses,
   offers |-> {WowzaResponse(200, <<>>, Str("wz-1"), GoodOffer, <<>>)},
   candidates |-> {WowzaResponse(200, <<>>, <<>>, <<>>, <<Candidate1>>)}]

SpecTimed == Init /\ [][NextTimed(Timed)]_vars

\* the Go runtime runs every goroutine that can run and fires every timer:
\* time passes while a call blocks, a call whose time limit is reached
\* returns, and the handler goes on after Negotiate has returned.  Nothing
\* makes Wowza answer.
SpecTimedFair ==
  /\ SpecTimed
  /\ \A w \in Timed.workers :
       /\ WF_vars(Tick(w))
       /\ WF_vars(Expire(Timed, w))
       /\ WF_vars(HandlerStep(w))

SpecSdp == Init /\ [][NextCreate(Sdp)]_vars

SpecRemovals ==
  InitWith({StaticConfig}) /\ [][NextCreate(Removals) \/ NextSessionOps(Removals)]_vars

\* the same with the shutdown: every path that stops a session
SpecStopPaths ==
  InitWith({StaticConfig})
    /\ [][NextCreate(Removals) \/ NextSessionOps(Removals) \/ NextShutdown]_vars

\* what may come before a session id in a path: nothing, a codec that is
\* none, no host, a host the allow-list of CloudConfig refuses, a host that
\* is no host name, and the paths of the creates
OddPrefixes ==
  { <<"/", "whep">>,
    <<"/", "whep", "/", "av1", "/", "x">>,
    <<"/", "whep", "/", "cloud">>,
    <<"/", "whep", "/", "cloud", "/", "av1", "/", "-", "evil", "/", "x">>,
    CloudPath(EvilHost),
    CloudPath(CloudFQDNHost),
    StaticPath }

ResolveRequests ==
  {Request("POST", p, SdpCT, ClientOffer) : p \in {StaticPath, CloudPath(CloudFQDNHost)}}
  \cup {Request("DELETE", PathJoin(p, NewID(1)), <<>>, <<>>) : p \in OddPrefixes}
  \cup {Request("PATCH", PathJoin(p, NewID(1)), TrickleCT, TrickleBody) : p \in OddPrefixes}
  \cup {Request("POST", PathJoin(p, NewID(1)), SdpCT, ClientOffer) : p \in OddPrefixes}
  \cup {Request("GET", PathJoin(p, <<"session-", "zz">>), <<>>, <<>>) : p \in OddPrefixes}
  \cup {Request("GET", <<"/", "stats">>, <<>>, <<>>)}

\* one request at a time, session paths with every prefix
Resolving ==
  [workers |-> {1}, requests |-> ResolveRequests, maxSessions |-> MaxSessions,
   dialCauses |-> {}, writeCauses |-> {}, readCauses |-> {},
   offers |-> FewOffers, candidates |-> FewCandidates]

SpecResolve == Init /\ [][NextCreate(Resolving) \/ NextSessionOps(Resolving)]_vars

SpecValidation == Init /\ [][NextCreate(Validation)]_vars

SpecHosts == InitWith(HostConfigs) /\ [][NextCreate(Hosts)]_vars

SpecRouter == Init /\ [][NextCreate(Router) \/ NextSessionOps(Router)]_vars

StopRequests ==
  {Request("POST", StaticPath, SdpCT, ClientOffer),
   Request("DELETE", PathJoin(StaticPath, NewID(1)), <<>>, <<>>)}

\* a create and DELETEs of its session, two requests at a time
Stops ==
  [workers |-> Workers, requests |-> StopRequests, maxSessions |-> MaxCreates,
   dialCauses |-> {}, writeCauses |-> {}, readCauses |-> {},
   offers |-> FewOffers, candidates |-> FewCandidates]

\* creates, DELETEs, the shutdown and further callers of Session.Stop
NextStops ==
  \/ NextCreate(Stops)
  \/ \E w \in Stops.workers, r \in Stops.requests : ServeSessionOp(w, r)
  \/ \E w \in Stops.workers : DeleteRemove(w)
  \/ NextShutdown
  \/ \E id \in DOMAIN heap : CallStop(id)

SpecStops == Init /\ [][NextStops]_vars

\* two workers, creates, a DELETE and GET /stats, and the shutdown, with
\* Manager.mu taken and released in steps of their own
LockRequests ==
  {Request("POST", StaticPath, SdpCT, ClientOffer),
   Request("DELETE", PathJoin(StaticPath, NewID(1)), <<>>, <<>>),
   Request("GET", <<"/", "stats">>, <<>>, <<>>)}

Locking ==
  [workers |-> Workers, requests |-> LockRequests, maxSessions |-> MaxCreates,
   dialCauses |-> {}, writeCauses |-> {}, readCauses |-> {},
   offers |-> FewOffers,
   candidates |-> FewCandidates
                  \cup {WowzaResponse(504, Str("stream timed out"), <<>>, <<>>, <<>>)}]

\* the same with nothing but refusals from Wowza
Refusing ==
  [Locking EXCEPT !.offers = {r \in @ : r.status # 200},
                  !.candidates = {r \in @ : r.status # 200}]

SpecLocks == InitWith({StaticConfig}) /\ [][NextLocked(Locking)]_vars

\* the Go runtime runs every goroutine that can run, the timer of
\* shutdownCtx fires, and no read from Wowza waits for ever; nothing makes
\* a request or the signal arrive.  A read is enabled whatever Wowza
\* answers and every answer leaves it, so the fairness of the reads is
\* stated on the refusals, the cheapest answers to evaluate.
SpecLocksFair ==
  /\ SpecLocks
  /\ \A w \in Locking.workers : WF_vars(WorkerRuns(Refusing, w))
  /\ \A id \in LockIDs, g \in StopGoroutines : WF_vars(StopRuns(id, g))
  /\ WF_vars(ShutdownRuns)
  /\ WF_vars(CtxDeadline)

\* two workers, creates and GET /stats
Racing ==
  [Locking EXCEPT !.requests = {Request("POST", StaticPath, SdpCT, ClientOffer),
                                Request("GET", <<"/", "stats">>, <<>>, <<>>)}]

SpecRace == InitWith({StaticConfig}) /\ [][NextRacy(Racing)]_vars

SpecConc ==
  Init /\ [][NextCreate(Concurrent) \/ NextSessionOps(Concurrent) \/ NextShutdown]_vars

(***************************************************************************)
(* Properties.  SessionOf(w) is the session the create request of worker   *)
(* w made; Returned(w) says its Negotiate has returned to handleCreate.    *)
(***************************************************************************)
SessionOf(w) == heap[wk[w].sessionID]

Returned(w) == wk[w].pc = "returned"

ReturnedAnswer(w) == Returned(w) /\ wk[w].err = <<>>

ReturnedError(w) == Returned(w) /\ wk[w].err # <<>>

\* the frames of a given direction and command among fs
FramesOf(fs, dir, command) ==
  SelectSeq(fs, LAMBDA f : f.dir = dir /\ f.command = command)

\* C1: a Negotiate that returns an answer has sent exactly one getOffer,
\* read the offer, sent exactly one sendResponse and read the candidates,
\* in this order and nothing else, and its WebSocket is closed.
C1_FourFrames ==
  \A w \in Workers :
    ReturnedAnswer(w) =>
      LET s == SessionOf(w) IN
      /\ Len(s.frames) = 4
      /\ s.frames[1].dir = "write" /\ s.frames[1].command = "getOffer"
      /\ s.frames[2].dir = "read" /\ s.frames[2].command = "getOffer"
      /\ s.frames[3].dir = "write" /\ s.frames[3].command = "sendResponse"
      /\ s.frames[4].dir = "read" /\ s.frames[4].command = "sendResponse"
      /\ s.conn = "closed"

\* C1: a Negotiate has returned an answer
C1_Answered == \E w \in Workers : ReturnedAnswer(w) /\ wk[w].answer # <<>>

\* the workers inside Negotiate, from the dial to the return
InNegotiate(w) ==
  wk[w].pc \in {"dial", "getOffer", "readOffer", "sendResponse", "readCandidates"}

\* C2: the WebSocket of a session is open only while the Negotiate of the
\* session is running, whatever way it returns
C2_OpenOnlyInNegotiate ==
  \A id \in DOMAIN heap :
    heap[id].conn = "open" => \E w \in Workers : wk[w].sessionID = id /\ InNegotiate(w)

\* C2: a step in which Negotiate returns closes the WebSocket if the dial
\* had opened one, and once closed the WebSocket stays closed and no frame
\* is written to it or read from it
C2_ClosedForGood ==
  \A id \in DOMAIN heap :
    /\ (\E w \in Workers : wk[w].sessionID = id /\ InNegotiate(w) /\ Returned(w)')
         => heap'[id].conn = IF heap[id].conn = "open" THEN "closed" ELSE "none"
    /\ heap[id].conn = "closed"
         => heap'[id].conn = "closed" /\ heap'[id].frames = heap[id].frames

\* C2: whenever Negotiate returns after the dial succeeded, with an answer
\* or with any error, the WebSocket is closed, and no frame is sent or read
\* on it afterwards.
C2_ClosedOnEveryReturn == []C2_OpenOnlyInNegotiate /\ [][C2_ClosedForGood]_vars

\* C2: a Negotiate that had dialed and sent getOffer has returned an error
C2_FailedAfterDial ==
  \E w \in Workers :
    ReturnedError(w) /\ SessionOf(w).conn = "closed" /\ Len(SessionOf(w).frames) = 1

\* the frames read in answer to command, in session s
Answers(s, command) == FramesOf(s.frames, "read", command)

Sent(s, command) == FramesOf(s.frames, "write", command)

\* C3: when the answer to getOffer or to sendResponse has a status outside
\* 200..299, Negotiate returns the error "wowza error: " followed by the
\* statusDescription of that answer, and after such an answer to getOffer
\* no sendResponse is sent; a 2xx answer to getOffer without SDP makes
\* Negotiate return another error, one that is not a "wowza error", and no
\* sendResponse is sent either.
C3_WowzaError ==
  \A w \in Workers :
    Returned(w) =>
      LET s == SessionOf(w)
          offers == Answers(s, "getOffer")
          cands == Answers(s, "sendResponse")
      IN /\ (Len(offers) = 1 /\ NonOK(offers[1].resp)) =>
              /\ wk[w].err = <<"wowza error", ": ">> \o offers[1].resp.statusDescription
              /\ Sent(s, "sendResponse") = <<>>
         /\ (Len(offers) = 1 /\ ~NonOK(offers[1].resp) /\ offers[1].resp.sdp = <<>>) =>
              /\ wk[w].err # <<>>
              /\ ~Contains(wk[w].err, <<"wowza error">>)
              /\ Sent(s, "sendResponse") = <<>>
         /\ (Len(cands) = 1 /\ NonOK(cands[1].resp)) =>
              wk[w].err = <<"wowza error", ": ">> \o cands[1].resp.statusDescription

\* C3: Negotiate has returned after a non-2xx answer to sendResponse
C3_CandidatesRefused ==
  \E w \in Workers :
    /\ Returned(w)
    /\ Len(Answers(SessionOf(w), "sendResponse")) = 1
    /\ NonOK(Answers(SessionOf(w), "sendResponse")[1].resp)

\* the worker has written the response of a create whose Negotiate failed
AnsweredFailure(w) == wk[w].pc = "done" /\ wk[w].err # <<>>

\* the Negotiate of session s ended on an answer with a status outside 200..299
Refused(s) ==
  /\ s.frames # <<>>
  /\ s.frames[Len(s.frames)].dir = "read"
  /\ NonOK(s.frames[Len(s.frames)].resp)

\* C4: a create whose Negotiate failed is answered 502 and its session is
\* not in the registry when the response is written; the body is
\* "wowza error: <statusDescription>" exactly when the failure was an answer
\* of Wowza with a status outside 200..299, and "signaling failed" for
\* every other failure.
C4_BadGatewayBody ==
  \A w \in Workers :
    AnsweredFailure(w) =>
      LET s == SessionOf(w) IN
      /\ wk[w].resp.status = StatusBadGateway
      /\ wk[w].sessionID \notin sessions
      /\ wk[w].resp.msg =
           IF Refused(s)
           THEN <<"wowza error", ": ">> \o s.frames[Len(s.frames)].resp.statusDescription
           ELSE Str("signaling failed")

\* C4: a create that failed on a read error, no answer of Wowza having a
\* status outside 200..299, is answered with a body other than
\* "signaling failed"
C4_ReadErrorInBody ==
  \E w \in Workers :
    /\ AnsweredFailure(w)
    /\ ~Refused(SessionOf(w))
    /\ HasPrefix(wk[w].err, <<"read getOffer response: ">>)
    /\ wk[w].resp.status = StatusBadGateway
    /\ wk[w].resp.msg = wk[w].err

\* C5: every sendResponse a session sends carries the sessionId of the
\* answer to getOffer it has just read, whatever that value is, and every
\* getOffer carries an empty sessionId.
C5_SessionIdEchoed ==
  \A id \in DOMAIN heap :
    LET fs == heap[id].frames IN
    \A i \in 1..Len(fs) :
      /\ (fs[i].dir = "write" /\ fs[i].command = "getOffer") => fs[i].sessionID = <<>>
      /\ (fs[i].dir = "write" /\ fs[i].command = "sendResponse") =>
           /\ i > 1
           /\ fs[i - 1].dir = "read" /\ fs[i - 1].command = "getOffer"
           /\ fs[i].sessionID = fs[i - 1].resp.sessionID

\* C5: a sendResponse has been sent after an offer with sessionId wz-2
C5_EchoedSecondId ==
  \E id \in DOMAIN heap :
    /\ Len(heap[id].frames) >= 3
    /\ heap[id].frames[2].resp.sessionID = Str("wz-2")
    /\ heap[id].frames[3].command = "sendResponse"

\* worker w writes its response in this step
Responds(w) == wk[w].pc # "done" /\ wk'[w].pc = "done"

\* worker w takes a request in this step
Takes(w) == wk[w].pc = "idle" /\ wk'[w].pc # "idle"

\* the 201 of a create says what Negotiate returned and where the session is
Created201(w) ==
  /\ Returned(w) /\ wk[w].err = <<>> /\ wk[w].answer # <<>>
  /\ wk'[w].resp.answer = wk[w].answer
  /\ <<"Location", wk[w].req.path \o <<"/">> \o wk[w].sessionID>> \in wk'[w].resp.hdr

\* a DELETE naming the session, or the Shutdown, has taken it out of the registry
RemovedMeanwhile(id) ==
  heap[id].goRemove # "none" \/ heap[id].goShutdown # "none" \/ id \in shut.snapshot

\* C6 as the specification states it: a create is answered 201 only if its
\* Negotiate returned an answer, the Location is the request path, "/" and
\* the id of the session made for the request, and the id is in the
\* registry at the moment the 201 is written.
C6_RegisteredAt201 ==
  [][\A w \in Workers :
       (Responds(w) /\ wk'[w].resp.status = StatusCreated) =>
         Created201(w) /\ wk[w].sessionID \in sessions']_vars

\* C6: a create is answered 201 only if its Negotiate returned an answer,
\* the Location is the request path, "/" and the id of the session made for
\* the request, and the id is in the registry at the moment the 201 is
\* written unless a DELETE naming it or the Shutdown has removed it since
\* Manager.Create registered it.
C6_RegisteredUnlessRemoved ==
  [][\A w \in Workers :
       (Responds(w) /\ wk'[w].resp.status = StatusCreated) =>
         /\ Created201(w)
         /\ wk[w].sessionID \in sessions' \/ RemovedMeanwhile(wk[w].sessionID)]_vars

\* C6: a 201 has been written while the other worker was busy, and the
\* session is registered
C6_CreatedWhileBusy ==
  \E w \in Workers :
    /\ wk[w].pc = "done" /\ wk[w].resp.status = StatusCreated
    /\ wk[w].sessionID \in sessions
    /\ \E v \in Workers \ {w} : wk[v].pc # "idle"

\* the last segment of the path of a request
LastSegment(r) == Split(r.path, "/")[Len(Split(r.path, "/"))]

\* a DELETE or PATCH under /whep/ whose path ends in a session id
NamesSession(r) ==
  /\ r.method \in {"DELETE", "PATCH"}
  /\ HasPrefix(r.path, <<"/", "whep", "/">>)
  /\ HasPrefix(LastSegment(r), <<"session-">>)

\* a static-mode path, /whep/... but not /whep/cloud/..., on a gateway
\* started without a static Wowza URL
StaticUnconfigured(r) ==
  /\ cfg.WowzaWSURL = <<>>
  /\ ~HasPrefix(r.path, <<"/", "whep", "/", "cloud", "/">>)

\* worker w takes a request naming an id that is not registered: 404, and
\* the registry is unchanged
UnknownIs404(w) ==
  /\ wk'[w].pc = "done"
  /\ wk'[w].resp.status = StatusNotFound
  /\ sessions' = sessions

\* the DELETE of worker w found its session: the response, when it is
\* written, is 200 and the session is not in the registry
DeleteIs200(w) ==
  (wk[w].pc = "remove" /\ wk'[w].pc # "remove") =>
    /\ wk'[w].pc = "done"
    /\ wk'[w].resp.status = StatusOK
    /\ wk[w].sessionID \notin sessions'

\* C7 as the specification states it: a DELETE of a registered session
\* (the Location of a successful create names one until it is deleted) is
\* answered 200 with the session out of the registry when the response is
\* written; every DELETE or PATCH naming an id that is not registered is
\* answered 404 and leaves the registry unchanged.
C7_UnknownAlways404 ==
  [][\A w \in Workers :
       /\ (Takes(w) /\ NamesSession(wk'[w].req)) =>
            IF LastSegment(wk'[w].req) \notin sessions
            THEN UnknownIs404(w)
            ELSE StaticUnconfigured(wk'[w].req)
                 \/ wk'[w].req.method = "PATCH" \/ wk'[w].pc = "remove"
       /\ DeleteIs200(w)]_vars

\* C7: a DELETE of a registered session is answered 200 with the session
\* out of the registry when the response is written; a DELETE or PATCH
\* naming an id that is not registered is answered 404 and leaves the
\* registry unchanged, except on a static-mode path of a gateway started
\* without a static Wowza URL, where every request is answered 503 before
\* the id is looked at.
C7_UnknownIs404OrUnconfigured ==
  [][\A w \in Workers :
       /\ (Takes(w) /\ NamesSession(wk'[w].req)) =>
            IF StaticUnconfigured(wk'[w].req)
            THEN /\ wk'[w].pc = "done"
                 /\ wk'[w].resp.status = StatusServiceUnavailable
                 /\ sessions' = sessions
            ELSE IF LastSegment(wk'[w].req) \notin sessions
            THEN UnknownIs404(w)
            ELSE wk'[w].req.method = "PATCH" \/ wk'[w].pc = "remove"
       /\ DeleteIs200(w)]_vars

\* C7: a DELETE has been answered 200, and a second DELETE of the same
\* path is being answered 404
C7_SecondDelete ==
  \E w \in Workers :
    /\ wk[w].pc = "done" /\ wk[w].req.method = "DELETE"
    /\ wk[w].resp.status = StatusNotFound
    /\ wk[w].sessionID \in DOMAIN heap
    /\ heap[wk[w].sessionID].goRemove # "none"
    /\ wk[w].sessionID \notin sessions

C9_OptionsAdvertise ==
  \A w \in Workers :
    ( /\ wk[w].pc = "done"
      /\ wk[w].req.method = "OPTIONS"
      /\ HasPrefix(wk[w].req.path, <<"/", "whep", "/">>) ) =>
        /\ wk[w].resp.status = StatusNoContent
        /\ <<"Accept-Post", Str("application/sdp")>> \in wk[w].resp.hdr
        /\ <<"Accept-Patch", Str("application/trickle-ice-sdpfrag")>> \in wk[w].resp.hdr

\* C9: an OPTIONS request under /whep/ has been answered 204 with the CORS
\* headers alone
C9_OnlyCORSHeaders ==
  \E w \in Workers :
    /\ wk[w].pc = "done" /\ wk[w].req.method = "OPTIONS"
    /\ wk[w].req.path = StaticPath
    /\ wk[w].resp.status = StatusNoContent
    /\ wk[w].resp.hdr = CORSHeaders

\* POST /whep/cloud/h264/abcd1234/live/demo to a gateway whose allow-list
\* is *.entrypoint.cloud.wowza.com
CloudIDCreate(r) ==
  /\ cfg.AllowedHosts = <<"*", ".", "entrypoint", ".", "cloud", ".", "wowza", ".", "com">>
  /\ r = Request("POST", CloudPath(<<"abcd1234">>), SdpCT, ClientOffer)

\* C10 as the specification states it: with the allow-list
\* *.entrypoint.cloud.wowza.com a dynamic create for the dot-free host
\* abcd1234 passes the allow-list, derives
\* wss://abcd1234.entrypoint.cloud.wowza.com/webrtc-session.json and goes on
\* to create the session and negotiate.
C10_CloudIdAllowed ==
  [][\A w \in Workers :
       (Takes(w) /\ CloudIDCreate(wk'[w].req)) =>
         /\ wk'[w].pc = "body"
         /\ wk'[w].wsURL = <<"wss://", "abcd1234", ".", "entrypoint", ".", "cloud", ".",
                             "wowza", ".", "com", "/webrtc-session.json">>]_vars

\* C10: that create has been answered 403 "host not allowed"
C10_CloudIdForbidden ==
  \E w \in Workers :
    /\ wk[w].pc = "done" /\ CloudIDCreate(wk[w].req)
    /\ wk[w].resp.status = StatusForbidden
    /\ wk[w].resp.msg = Str("host not allowed")
    /\ heap = <<>>

\* the host segment of a dynamic-mode path
HostOf(r) == Split(TrimPrefix(r.path, <<"/", "whep", "/", "cloud", "/">>), "/")[2]

\* a POST /whep/cloud/{codec}/{host}/{app}/{stream} that passes every
\* check made before the allow-list: the codec and the syntax of the host
DynamicCreate(r) ==
  /\ r.method = "POST"
  /\ HasPrefix(r.path, <<"/", "whep", "/", "cloud", "/">>)
  /\ Len(Split(TrimPrefix(r.path, <<"/", "whep", "/", "cloud", "/">>), "/")) >= 4
  /\ isValidHost(HostOf(r))

\* the entries of an allow-list, trimmed and in lower case
Entries(list) ==
  LET ps == Split(TrimSpace(list), ",") IN
  {ToLower(TrimSpace(ps[i])) : i \in 1..Len(ps)}

AllowAll(list) == TrimSpace(list) = <<>> \/ TrimSpace(list) = <<"*">>

\* host equals a pattern of the list or ends in the suffix of one of its
\* "*." patterns, letter case aside
Listed(list, host) ==
  \E p \in Entries(list) :
    \/ p = ToLower(host)
    \/ HasPrefix(p, <<"*", ".">>) /\ HasSuffix(ToLower(host), Tail(p))

\* worker w answers 403 in this step; no session is made, no WebSocket dialed
Refuses(w) ==
  /\ wk'[w].pc = "done"
  /\ wk'[w].resp.status = StatusForbidden
  /\ sessions' = sessions /\ heap' = heap /\ uuids' = uuids

\* C11 as the specification states it: under an allow-list that is neither
\* empty nor "*", a dynamic create whose host equals no pattern and matches
\* no "*." suffix pattern is answered 403 without a session or a dial;
\* under an empty or "*" allow-list every valid host is allowed; the
\* pattern "*.d" allows every host that ends in ".d" and not "d" itself.
C11_UnlistedHostRefused ==
  [][\A w \in Workers :
       (Takes(w) /\ DynamicCreate(wk'[w].req)) =>
         LET host == HostOf(wk'[w].req)
             list == cfg.AllowedHosts
         IN /\ (~AllowAll(list) /\ ~Listed(list, host)) => Refuses(w)
            /\ AllowAll(list) => wk'[w].pc = "body"
            /\ list = <<"*", ".">> \o CloudDomain =>
                 /\ HasSuffix(host, <<".">> \o CloudDomain) => wk'[w].pc = "body"
                 /\ host = CloudDomain => Refuses(w)]_vars

\* C11: under the allow-list "w.example," the create for evil.example.com
\* has a session
C11_TrailingCommaAllows ==
  \E w \in Workers :
    /\ cfg.AllowedHosts = <<"w", ".", "example", ",">>
    /\ wk[w].req = Request("POST", CloudPath(EvilHost), SdpCT, ClientOffer)
    /\ wk[w].pc = "dial"
    /\ wk[w].sessionID \in sessions

\* the requests in Negotiate or past it: their session has been dialed
Dialed(w) == wk[w].sessionID # <<>> /\ wk[w].req.method = "POST" /\ SessionOf(w).dialed # <<>>

CloudCreate(r) == HasPrefix(r.path, <<"/", "whep", "/", "cloud", "/">>)

\* C12: the URL dialed for a dynamic create is wss://{host}/webrtc-session.json
\* when the host segment has a dot and
\* wss://{host}.entrypoint.cloud.wowza.com/webrtc-session.json when it has
\* none; the URL dialed for a static create is the configured one, whatever
\* the path.
C12_DialedURL ==
  \A w \in Workers :
    Dialed(w) =>
      LET r == wk[w].req
          url == SessionOf(w).dialed
      IN IF CloudCreate(r)
         THEN IF \E i \in 1..Len(HostOf(r)) : HostOf(r)[i] = "."
              THEN url = <<"wss://">> \o HostOf(r) \o <<"/webrtc-session.json">>
              ELSE url = <<"wss://">> \o HostOf(r)
                           \o <<".", "entrypoint", ".", "cloud", ".", "wowza", ".", "com">>
                           \o <<"/webrtc-session.json">>
         ELSE url = cfg.WowzaWSURL /\ url # <<>>

\* C12: a dynamic create for the Wowza Cloud id abcd1234 has been dialed
C12_CloudIdDialed ==
  \E w \in Workers :
    /\ Dialed(w)
    /\ wk[w].req.path = CloudPath(CloudIDHost)
    /\ SessionOf(w).dialed =
         <<"wss://", "abcd1234", ".", "entrypoint", ".", "cloud", ".", "wowza", ".", "com",
           "/webrtc-session.json">>

\* the segments of a create path after /whep/ or /whep/cloud/
CreateSegments(r) ==
  IF CloudCreate(r)
  THEN Split(TrimPrefix(r.path, <<"/", "whep", "/", "cloud", "/">>), "/")
  ELSE Split(TrimPrefix(r.path, <<"/", "whep", "/">>), "/")

\* a request on a path of the create shape: three segments in static mode,
\* four in dynamic mode
OnCreatePath(r) ==
  /\ HasPrefix(r.path, <<"/", "whep", "/">>)
  /\ ~NamesSession(r)
  /\ Len(CreateSegments(r)) = (IF CloudCreate(r) THEN 4 ELSE 3)

\* seg matches ^[A-Za-z0-9._-]{1,64}$
MatchesSegment(seg) ==
  /\ ByteLen(seg) \in 1..64
  /\ \A i \in 1..Len(seg) : seg[i] \in AlnumAtoms \cup {".", "_", "-"}

CodecRefused(r) == ToLower(CreateSegments(r)[1]) \notin {<<"h264">>, <<"vp8">>}

\* the statuses the validation rules give a request on a create path under
\* Config c: the empty set when every rule passes
RefusalsOf(c, r) ==
  LET segs == CreateSegments(r)
      n == Len(segs)
  IN {StatusServiceUnavailable : x \in {1} \cap (IF ~CloudCreate(r) /\ c.WowzaWSURL = <<>> THEN {1} ELSE {})}
     \cup {StatusBadRequest : x \in {1} \cap (IF CodecRefused(r) THEN {1} ELSE {})}
     \cup {StatusBadRequest : x \in {1} \cap
             (IF ~MatchesSegment(segs[n - 1]) \/ ~MatchesSegment(segs[n]) THEN {1} ELSE {})}
     \cup {StatusBadRequest : x \in {1} \cap
             (IF CloudCreate(r) /\ ~isValidHost(segs[2]) THEN {1} ELSE {})}
     \cup {StatusForbidden : x \in {1} \cap
             (IF CloudCreate(r) /\ isValidHost(segs[2]) /\ ~IsHostAllowed(c, segs[2])
              THEN {1} ELSE {})}
     \cup {StatusUnsupportedMediaType : x \in {1} \cap
             (IF r.method = "POST" /\ ~Contains(r.ct, <<"application/sdp">>) THEN {1} ELSE {})}
     \cup {StatusBadRequest : x \in {1} \cap
             (IF r.method = "POST" /\ r.body = <<>> THEN {1} ELSE {})}
     \cup {StatusMethodNotAllowed : x \in {1} \cap
             (IF r.method \notin {"POST", "OPTIONS"} THEN {1} ELSE {})}

\* no session is registered, made or dialed in this step
NothingCreated ==
  /\ sessions' = sessions
  /\ DOMAIN heap' = DOMAIN heap
  /\ \A id \in DOMAIN heap : heap'[id].dialed = heap[id].dialed

\* C13: while the gateway handles a request on a create path that fails a
\* validation rule (codec, application or stream, host syntax, host not
\* allowed, Content-Type, empty body, static path without a configured URL,
\* method), the registry does not change and nothing is dialed; the request
\* never enters Negotiate, and its answer has the status of a rule it fails
\* (400 'codec must be h264 or vp8' when the codec is all it fails).
C13_RefusedCreatesNothing ==
  [][\A w \in Workers :
       LET r == wk'[w].req IN
       (wk'[w].pc # "idle" /\ OnCreatePath(r) /\ RefusalsOf(cfg, r) # {}) =>
         /\ NothingCreated
         /\ wk'[w].pc \in {"body", "done"}
         /\ wk'[w].sessionID = <<>>
         /\ wk'[w].pc = "done" =>
              /\ wk'[w].resp.status \in RefusalsOf(cfg, r)
              /\ (CodecRefused(r) /\ RefusalsOf(cfg, r) = {StatusBadRequest}
                  /\ MatchesSegment(CreateSegments(r)[Len(CreateSegments(r))])
                  /\ MatchesSegment(CreateSegments(r)[Len(CreateSegments(r)) - 1])
                  /\ r.body # <<>>)
                 => wk'[w].resp.msg = <<"codec must be h264 or vp8">>]_vars

\* C13: a create with the wrong Content-Type is answered 415 while another
\* session is registered
C13_RefusedWhileRegistered ==
  \E w \in Workers :
    /\ wk[w].pc = "done"
    /\ wk[w].req = Request("POST", StaticPath, TrickleCT, ClientOffer)
    /\ wk[w].resp.status = StatusUnsupportedMediaType
    /\ sessions # {}

\* C14 as the specification states it: a create whose body is larger than
\* 64 KiB is answered 400, 403 or 415; no session is created for it and it
\* never enters a negotiation.
C14_OversizedRefused ==
  [][\A w \in Workers :
       LET r == wk'[w].req IN
       (wk'[w].pc # "idle" /\ r.method = "POST" /\ OnCreatePath(r)
        /\ ByteLen(r.body) > 64 * 1024) =>
         /\ NothingCreated
         /\ wk'[w].pc \in {"body", "done"}
         /\ wk'[w].pc = "done" =>
              wk'[w].resp.status \in
                {StatusBadRequest, StatusForbidden, StatusUnsupportedMediaType}]_vars

\* C14: the first 64 KiB of an oversized body are the client offer of a
\* session that has been dialed
C14_TruncatedOfferNegotiated ==
  \E w \in Workers :
    /\ ByteLen(wk[w].req.body) > 64 * 1024
    /\ Dialed(w)
    /\ wk[w].offer # <<>>
    /\ ByteLen(wk[w].offer) <= 64 * 1024
    /\ HasPrefix(wk[w].req.body, wk[w].offer)

\* worker w is about to call Manager.Remove: from a DELETE, or from
\* handleCreate after a failed Negotiate
CallsRemove(w) ==
  \/ wk[w].pc = "remove"
  \/ wk[w].pc = "returned" /\ wk[w].err # <<>>

\* worker w calls Manager.Create in this step
CreateStep(w) == wk[w].pc = "body" /\ wk'[w].pc = "dial"

\* worker w calls Manager.Remove in this step
RemoveStep(w) == CallsRemove(w) /\ wk'[w].pc = "done"

\* the sessions whose Remove found them registered
Removed == {id \in DOMAIN heap : heap[id].goRemove # "none"}

\* C15: with N the number of Manager.Create calls made and K the number of
\* created ids Manager.Remove has been called on, ActiveIDs has N-K
\* entries, the created ids not removed: a Create adds its new id, a Remove
\* of a registered id takes that id out, a Remove of an id that is not
\* registered changes nothing, and nothing else changes ActiveIDs.
C15_ActiveIsCreatedMinusRemoved ==
  /\ [](/\ Cardinality(DOMAIN heap) = uuids
        /\ ActiveIDs = DOMAIN heap \ Removed
        /\ Cardinality(ActiveIDs) = uuids - Cardinality(Removed))
  /\ [][/\ \A w \in Workers :
             /\ CreateStep(w) =>
                  /\ wk'[w].sessionID \notin ActiveIDs
                  /\ ActiveIDs' = ActiveIDs \cup {wk'[w].sessionID}
                  /\ Cardinality(ActiveIDs') = Cardinality(ActiveIDs) + 1
             /\ (RemoveStep(w) /\ wk[w].sessionID \in ActiveIDs) =>
                  /\ ActiveIDs' = ActiveIDs \ {wk[w].sessionID}
                  /\ Cardinality(ActiveIDs') = Cardinality(ActiveIDs) - 1
             /\ (RemoveStep(w) /\ wk[w].sessionID \notin ActiveIDs) =>
                  /\ ActiveIDs' = ActiveIDs
                  /\ heap' = heap
        /\ (\A w \in Workers : ~CreateStep(w) /\ ~RemoveStep(w)) =>
             ActiveIDs' = ActiveIDs]_vars

\* C15: two sessions have been created and one removed; a DELETE that found
\* the removed one registered is about to call Remove on it
C15_RemoveOfUnregistered ==
  \E w \in Workers :
    /\ uuids = 2
    /\ Cardinality(ActiveIDs) = 1
    /\ wk[w].pc = "remove"
    /\ wk[w].sessionID \in DOMAIN heap \ ActiveIDs

\* C16: over every interleaving of DELETEs, failure-path Removes, the
\* shutdown and further calls of Stop, the stop callback of a session is
\* invoked at most once, its stopped flag goes from false to true once and
\* never back, and a Stop called after the first one has returned changes
\* nothing of the session or of the registry.
C16_StopOnce ==
  /\ [](\A id \in DOMAIN heap :
          /\ heap[id].callbacks <= 1
          /\ heap[id].callbacks = 1 => heap[id].stopped)
  /\ [][\A id \in DOMAIN heap :
          /\ heap[id].stopped => heap'[id].stopped
          /\ heap'[id].callbacks >= heap[id].callbacks
          /\ heap[id].stopOnce = "done" =>
               /\ heap'[id].stopped = heap[id].stopped
               /\ heap'[id].callbacks = heap[id].callbacks
               /\ heap'[id].stopOnce = "done"
               /\ (id \in sessions') = (id \in sessions)]_vars

\* C16: two calls of Stop on one session have returned, and its callback
\* has run once
C16_StoppedTwice ==
  \E id \in DOMAIN heap :
    /\ Cardinality({g \in StopGoroutines : heap[id][g] = "returned"}) >= 2
    /\ heap[id].callbacks = 1
    /\ heap[id].stopped

\* C17 as the specification states it: when Manager.Shutdown has returned
\* and the process has not yet acted on it, ActiveIDs is empty.
C17_EmptyAtReturn == shut.pc = "returned" => ActiveIDs = {}

\* C17: Manager.Shutdown has returned nil and a session created after its
\* snapshot is registered
C17_CreatedAfterSnapshot ==
  /\ shut.pc = "returned"
  /\ shut.result = "nil"
  /\ \E id \in ActiveIDs : id \notin shut.snapshot /\ ~heap[id].stopped

\* Manager.Shutdown has returned
ShutdownReturned == shut.pc \in {"returned", "exited"}

\* C18: Manager.Shutdown returns nil only when, for every session of its
\* snapshot, Stop has returned with the stopped flag set and the stop
\* callback run; it returns the deadline error only when its context has
\* ended; with an empty snapshot it returns nil, and does so in the step
\* after the unlock whether or not the context has ended.
C18_ShutdownResult ==
  /\ [](ShutdownReturned =>
          /\ shut.result \in {"nil", "deadline exceeded"}
          /\ shut.result = "nil" =>
               \A id \in shut.snapshot :
                 /\ heap[id].goShutdown = "returned"
                 /\ heap[id].stopped
                 /\ heap[id].stopOnce = "done"
                 /\ heap[id].callbacks = 1
          /\ shut.result = "deadline exceeded" => shut.ctxDone
          /\ shut.snapshot = {} => shut.result = "nil")
  /\ [][(shut.pc = "snapshot" /\ shut.snapshot = {} /\ shut'.pc # "snapshot") =>
          /\ shut'.pc = "returned"
          /\ shut'.result = "nil"
          /\ shut'.ctxDone = shut.ctxDone]_vars

\* C18: Manager.Shutdown has returned nil for a snapshot of one session,
\* after its context ended
C18_NilAfterStops ==
  /\ shut.pc = "returned"
  /\ shut.result = "nil"
  /\ shut.snapshot # {}
  /\ shut.ctxDone

\* session id has been taken out of the registry by Manager.Remove or by
\* the snapshot of Manager.Shutdown
TakenOut(id) ==
  \/ heap[id].goRemove # "none"
  \/ id \in shut.snapshot

\* C19 as the specification states it: a created session is in the
\* registry if and only if its stopped flag is false.
C19_RegisteredIffNotStopped ==
  \A id \in DOMAIN heap : (id \in sessions) <=> ~heap[id].stopped

\* C19, amended: the registry holds created sessions only, and none of
\* them is stopped; a created session outside the registry has been taken
\* out by Manager.Remove or Manager.Shutdown, and its stopped flag is false
\* until the goroutine that runs its Stop has entered the once, true from
\* then on.
C19_RegisteredAreNotStopped ==
  /\ sessions \subseteq DOMAIN heap
  /\ \A id \in DOMAIN heap :
       /\ id \in sessions => ~heap[id].stopped
       /\ id \notin sessions => TakenOut(id)
       /\ heap[id].stopped <=> heap[id].stopOnce # "new"
       /\ (\E g \in StopGoroutines : heap[id][g] = "returned") => heap[id].stopped

\* C19: Manager.Remove has deleted a session whose Stop has not started:
\* it is neither registered nor stopped
C19_RemovedNotYetStopped ==
  \E id \in DOMAIN heap :
    /\ id \notin sessions
    /\ heap[id].goRemove = "go"
    /\ ~heap[id].stopped

\* the lines of an SDP that are not blank
LinesOf(sdpStr) ==
  SelectSeq(IF \E i \in 1..Len(sdpStr) : sdpStr[i] = "\r\n"
            THEN Split(sdpStr, "\r\n") ELSE Split(sdpStr, "\n"),
            LAMBDA l : l # <<>>)

\* the values the attribute key has in an SDP
ValuesOf(sdpStr, key) ==
  {Tail(LinesOf(sdpStr)[i]) : i \in {j \in 1..Len(LinesOf(sdpStr)) : LinesOf(sdpStr)[j][1] = key}}

\* the indexes of the m= lines of a sequence of lines
MediaStarts(ls) == {i \in 1..Len(ls) : ls[i][1] = "m="}

\* the lines of the media section that starts at line i
SectionLines(ls, i) ==
  {ls[j] : j \in {k \in i..Len(ls) : \A m \in MediaStarts(ls) : ~(i < m /\ m <= k)}}

\* the lines of the session level
SessionLines(ls) ==
  {ls[j] : j \in {k \in 1..Len(ls) : \A m \in MediaStarts(ls) : k < m}}

CredentialKeys == {"a=ice-ufrag:", "a=ice-pwd:", "a=fingerprint:"}

\* answer carries what C20 says of the answer for Wowza
CarriesClientCredentials(wO, cO, answer) ==
  LET ls == LinesOf(answer) IN
  /\ \A i \in MediaStarts(ls) : \A key \in CredentialKeys :
       \E v \in ValuesOf(cO, key) : <<key>> \o v \in SectionLines(ls, i)
  /\ \E v \in ValuesOf(cO, "a=fingerprint:") : <<"a=fingerprint:">> \o v \in SessionLines(ls)
  /\ \A j \in 1..Len(ls) : \A key \in CredentialKeys :
       ls[j][1] = key => Tail(ls[j]) \notin ValuesOf(wO, key) \ ValuesOf(cO, key)
  /\ \A i \in MediaStarts(ls) :
       /\ <<"a=setup:", "active">> \in SectionLines(ls, i)
       /\ \A l \in SectionLines(ls, i) : l[1] = "a=setup:" => l = <<"a=setup:", "active">>
  /\ \A j \in 1..Len(ls) :
       ls[j][1] = "a=candidate:" =>
         TrimPrefix(Tail(ls[j]), <<"candidate:">>) \notin ValuesOf(wO, "a=candidate:")

\* worker w holds an answer for Wowza
HasAnswerForWowza(w) == wk[w].answerForWowza # <<>>

\* C20 as the specification states it: every answer CreateAnswerForWowza
\* returns carries the client's ice-ufrag, ice-pwd and fingerprint in every
\* media section and the client's fingerprint at the session level, none
\* of Wowza's values of the three, setup active in every media section and
\* no candidate of Wowza's offer.
C20_AnswerForWowza ==
  \A w \in Workers :
    HasAnswerForWowza(w) =>
      CarriesClientCredentials(wk[w].wowzaOffer, wk[w].offer, wk[w].answerForWowza)

\* C20: the answer for an offer of Wowza with session-level credentials
\* carries Wowza's ice-ufrag and ice-pwd at the session level and none of
\* the client's in its media section
C20_WowzaCredentialsKept ==
  \E w \in Workers :
    /\ HasAnswerForWowza(w)
    /\ wk[w].wowzaOffer = SessionLevelOffer
    /\ wk[w].offer = ClientOffer
    /\ <<"a=ice-ufrag:", "ufragW">> \in SessionLines(LinesOf(wk[w].answerForWowza))
    /\ <<"a=ice-pwd:", "pwdW">> \in SessionLines(LinesOf(wk[w].answerForWowza))
    /\ \A i \in MediaStarts(LinesOf(wk[w].answerForWowza)) :
         <<"a=ice-ufrag:", "ufragC">> \notin SectionLines(LinesOf(wk[w].answerForWowza), i)

\* the candidates Wowza sent in answer to the sendResponse of worker w
WowzaCandidatesOf(w) == Answers(SessionOf(w), "sendResponse")[1].resp.cands

\* worker w holds an answer for the client
HasAnswerForClient(w) == ReturnedAnswer(w) /\ wk[w].answer # <<>>

\* the text of a candidate without its leading "candidate:"
CandidateText(c) == TrimPrefix(c, <<"candidate:">>)

\* answer carries what C21 says of the answer for the client
CarriesWowzaCredentials(wO, cO, wC, answer) ==
  LET ls == LinesOf(answer) IN
  /\ \A j \in 1..Len(ls) : \A key \in CredentialKeys :
       ls[j][1] = key =>
         Tail(ls[j]) \in ValuesOf(wO, key) /\ Tail(ls[j]) \notin ValuesOf(cO, key)
  /\ \A i \in MediaStarts(ls) :
       /\ \A key \in CredentialKeys : \E l \in SectionLines(ls, i) : l[1] = key
       /\ <<"a=setup:", "passive">> \in SectionLines(ls, i)
       /\ \A l \in SectionLines(ls, i) : l[1] = "a=setup:" => l = <<"a=setup:", "passive">>
  /\ \A j \in 1..Len(ls) :
       ls[j][1] = "a=candidate:" =>
         /\ \E n \in 1..Len(wC) :
              Tail(ls[j]) = CandidateText(cleanWowzaCandidate(wC[n].candidate))
         /\ \A v \in ValuesOf(cO, "a=candidate:") \cup ValuesOf(wO, "a=candidate:") :
              CandidateText(Tail(ls[j])) # CandidateText(v)

\* C21: every answer CreateAnswerForClient returns carries ice-ufrag,
\* ice-pwd and fingerprint values of Wowza's offer only and none of the
\* client's, has them and setup passive in every media section, and every
\* candidate in it is cleanWowzaCandidate of a candidate Wowza sent with
\* the leading "candidate:" removed, none being a candidate line of the
\* client's offer or of Wowza's offer.
C21_AnswerForClient ==
  \A w \in Workers :
    HasAnswerForClient(w) =>
      CarriesWowzaCredentials(wk[w].wowzaOffer, wk[w].offer, WowzaCandidatesOf(w), wk[w].answer)

\* C21: an answer for a client that offered candidates of its own, made
\* from an offer of Wowza with a candidate and from the candidates Wowza
\* sent, one of them over TCP with a generation suffix: the TCP candidate
\* is in the second media section, cleaned
C21_CleanedCandidateInAnswer ==
  \E w \in Workers :
    /\ HasAnswerForClient(w)
    /\ wk[w].offer = ThreeMediaOffer
    /\ wk[w].wowzaOffer = FullOffer
    /\ WowzaCandidatesOf(w) = <<CandidateGeneration, CandidateTcp, CandidateNoIndex>>
    /\ <<"a=candidate:", "2", " ", "1", " ", "tcp", " ", "90", " ", "8.8.4.4", " ", "443",
         " ", "typ", " ", "host", " ", "tcptype", " ", "passive">> \in
         SectionLines(LinesOf(wk[w].answer),
                      CHOOSE i \in MediaStarts(LinesOf(wk[w].answer)) :
                        LinesOf(wk[w].answer)[i][2] = "video")

\* the indexes of the m= lines of a sequence of lines, in their order
OrderedStarts(ls) ==
  SelectSeq([i \in 1..Len(ls) |-> i], LAMBDA i : ls[i][1] = "m=")

\* the values of a=mid in the media section that starts at line i
MidsOf(ls, i) == {Tail(l) : l \in {s \in SectionLines(ls, i) : s[1] = "a=mid:"}}

\* the media type of the m= line at line i, in lower case
TypeOf(ls, i) == ToLower(<<ls[i][2]>>)

\* the sections of answer are those of the client offer cO, one for one
\* and in order, each with the mid of the client's section, and the BUNDLE
\* group names these mids in this order
FollowsClientOrder(cO, answer) ==
  LET al == LinesOf(answer)
      cl == LinesOf(cO)
      as == OrderedStarts(al)
      cs == OrderedStarts(cl)
      mids == [n \in 1..Len(cs) |-> CHOOSE v \in MidsOf(cl, cs[n]) : TRUE]
  IN /\ Len(as) = Len(cs)
     /\ \A n \in 1..Len(cs) :
          /\ MidsOf(al, as[n]) = MidsOf(cl, cs[n])
          /\ TypeOf(al, as[n]) = TypeOf(cl, cs[n])
     /\ {l \in SessionLines(al) : l[1] = "a=group:"}
          = { <<"a=group:", "BUNDLE", " ">> \o Join(mids, " ") }

\* C22: the answer for the client has exactly one media section for every
\* m= section of the client's offer, in the client's order and with the
\* client's media type; the mid of its i-th section is the mid of the i-th
\* section of the client's offer, whether Wowza offers that type or not,
\* and its BUNDLE group lists exactly these mids in this order.
C22_ClientMidsInOrder ==
  \A w \in Workers :
    HasAnswerForClient(w) => FollowsClientOrder(wk[w].offer, wk[w].answer)

\* C22: an answer for the client that offered audio, video and a data
\* channel, where Wowza offers video before audio under the mids 0 and 1:
\* the sections are audio, video, application and the group is a1 v1 d1
C22_ThreeSectionsAnswered ==
  \E w \in Workers :
    /\ HasAnswerForClient(w)
    /\ wk[w].offer = ThreeMediaOffer
    /\ wk[w].wowzaOffer = FullOffer
    /\ LET al == LinesOf(wk[w].answer) IN
       /\ [n \in 1..3 |-> al[OrderedStarts(al)[n]][2]] = <<"audio", "video", "application">>
       /\ <<"a=group:", "BUNDLE", " ", "a1", " ", "v1", " ", "d1">> \in SessionLines(al)
       /\ MidsOf(al, OrderedStarts(al)[2]) = {<<"v1">>}

\* the media types an SDP offers, in lower case
TypesOf(sdpStr) == {TypeOf(LinesOf(sdpStr), i) : i \in MediaStarts(LinesOf(sdpStr))}

\* the fields of the m= line at line i after the "m="
MediaFields(ls, i) == Fields(Tail(ls[i]))

\* the formats of the last media section of the given type in an SDP
FormatsOf(sdpStr, type) ==
  LET ls == LinesOf(sdpStr)
      of == {i \in MediaStarts(ls) : TypeOf(ls, i) = type}
      last == CHOOSE i \in of : \A j \in of : j <= i
  IN SubSeq(MediaFields(ls, last), 4, Len(MediaFields(ls, last)))

\* the section of the answer at line i is a rejection
IsRejection(wO, al, i) ==
  /\ MediaFields(al, i)[2] = <<"0">>
  /\ <<"a=inactive">> \in SectionLines(al, i)
  /\ \E v \in ValuesOf(wO, "a=fingerprint:") : <<"a=fingerprint:">> \o v \in SectionLines(al, i)
  /\ \A l \in SectionLines(al, i) : l[1] \notin {"a=candidate:", "a=sendonly"}

\* the section of the answer at line i accepts the type with Wowza's formats
IsAcceptance(wO, al, i) ==
  /\ MediaFields(al, i)[2] = <<"9">>
  /\ <<"a=sendonly">> \in SectionLines(al, i)
  /\ <<"a=inactive">> \notin SectionLines(al, i)
  /\ SubSeq(MediaFields(al, i), 4, Len(MediaFields(al, i))) = FormatsOf(wO, TypeOf(al, i))

\* C23: in the answer for the client, the section for a client section
\* whose type, letter case aside, Wowza's offer has no section of has port
\* 0, the attribute inactive, Wowza's fingerprint and no candidate; the
\* section for a type Wowza offers has port 9, sendonly and the formats of
\* Wowza's section of that type.
C23_RejectedAndAccepted ==
  \A w \in Workers :
    HasAnswerForClient(w) =>
      LET al == LinesOf(wk[w].answer)
          cl == LinesOf(wk[w].offer)
      IN /\ Len(OrderedStarts(al)) = Len(OrderedStarts(cl))
         /\ \A n \in 1..Len(OrderedStarts(cl)) :
              IF TypeOf(cl, OrderedStarts(cl)[n]) \in TypesOf(wk[w].wowzaOffer)
              THEN IsAcceptance(wk[w].wowzaOffer, al, OrderedStarts(al)[n])
              ELSE IsRejection(wk[w].wowzaOffer, al, OrderedStarts(al)[n])

\* C23: the client offered audio, Video and a data channel and Wowza
\* video only, with the formats 97 98, and sent a candidate for the second
\* section: audio and the data channel are rejected, video is accepted
\* with 97 98 and the candidate
C23_AudioRejectedVideoAccepted ==
  \E w \in Workers :
    /\ HasAnswerForClient(w)
    /\ wk[w].offer = ThreeMediaOffer
    /\ wk[w].wowzaOffer = TwoCandidatesOffer
    /\ WowzaCandidatesOf(w) = <<CandidateGeneration, CandidateTcp, CandidateNoIndex>>
    /\ LET al == LinesOf(wk[w].answer) IN
       /\ al[OrderedStarts(al)[1]] =
            <<"m=", "audio", " ", "0", " ", "UDP/TLS/RTP/SAVPF", " ", "0">>
       /\ al[OrderedStarts(al)[2]] =
            <<"m=", "video", " ", "9", " ", "UDP/TLS/RTP/SAVPF", " ", "97", " ", "98">>
       /\ al[OrderedStarts(al)[3]] =
            <<"m=", "application", " ", "0", " ", "UDP/TLS/RTP/SAVPF", " ", "0">>
       /\ \E l \in SectionLines(al, OrderedStarts(al)[2]) : l[1] = "a=candidate:"

\* what C24 says of the cleaning of the candidate string c
CleanedWell(c) ==
  LET cleaned == cleanWowzaCandidate(c) IN
  /\ cleanWowzaCandidate(cleaned) = cleaned
  /\ (Len(Fields(c)) >= 3 /\ ToUpper(Fields(c)[3]) = <<"TCP">>) =>
       Contains(cleaned, <<"tcptype">>)
  /\ ~Contains(cleaned, <<" ", "generation">>)

\* worker w has read the candidates Wowza sent
HasCandidates(w) ==
  /\ wk[w].sessionID # <<>>
  /\ wk[w].req.method = "POST"
  /\ Len(Answers(SessionOf(w), "sendResponse")) > 0

\* C24: for every candidate Wowza sends, cleaning the cleaned candidate
\* changes nothing, the cleaned candidate contains "tcptype" when the
\* third field of the candidate is TCP in any letter case, and it has no
\* " generation" left in it; the candidate of the answer for the client is
\* the cleaned candidate without "candidate:".
C24_CleanIdempotent ==
  \A w \in Workers :
    HasCandidates(w) =>
      \A n \in 1..Len(WowzaCandidatesOf(w)) :
        /\ CleanedWell(WowzaCandidatesOf(w)[n].candidate)
        /\ HasAnswerForClient(w) =>
             <<"a=candidate:">>
               \o CandidateText(cleanWowzaCandidate(WowzaCandidatesOf(w)[n].candidate))
             \in {l \in SectionLines(LinesOf(wk[w].answer),
                                     OrderedStarts(LinesOf(wk[w].answer))[1]) :
                    l[1] = "a=candidate:"}
               \cup {<<"a=candidate:">>}

\* C24: Wowza sent "candidate:1 1 TCP 100 1.2.3.4 9 typ host generation 0"
\* and the answer for the client has it as
\* "1 1 TCP 100 1.2.3.4 9 typ host tcptype passive"
C24_TcpCandidateCleaned ==
  \E w \in Workers :
    /\ HasAnswerForClient(w)
    /\ WowzaCandidatesOf(w)[1].candidate =
         <<"candidate:", "1", " ", "1", " ", "TCP", " ", "100", " ", "1.2.3.4", " ", "9", " ",
           "typ", " ", "host", " ", "generation", " ", "0">>
    /\ cleanWowzaCandidate(WowzaCandidatesOf(w)[1].candidate) =
         <<"candidate:", "1", " ", "1", " ", "TCP", " ", "100", " ", "1.2.3.4", " ", "9", " ",
           "typ", " ", "host", " ", "tcptype", " ", "passive">>
    /\ <<"a=candidate:", "1", " ", "1", " ", "TCP", " ", "100", " ", "1.2.3.4", " ", "9", " ",
         "typ", " ", "host", " ", "tcptype", " ", "passive">>
         \in SectionLines(LinesOf(wk[w].answer), OrderedStarts(LinesOf(wk[w].answer))[1])

\* the SDP CreateAnswerForWowza hands to filterPrivateIPs: answerDesc as
\* Marshal writes it
Marshalled(w) ==
  Marshal(answerLines(ExtractCredentials(wk[w].offer), UnmarshalLines(wk[w].wowzaOffer),
                      1, FALSE))

\* the addresses of the model that are RFC 1918, loopback, link-local or
\* not IPv4
Unroutable ==
  {"10.0.0.1", "10.0.0.7", "172.16.0.9", "192.168.1.5", "127.0.0.1", "169.254.7.7",
   "fe80::1", "2001:db8::7", "::1"}

\* line is a candidate line whose address, the fifth field, is unroutable
UnroutableCandidate(line) ==
  /\ line # <<>>
  /\ line[1] = "a=candidate:"
  /\ Len(Fields(line)) >= 5
  /\ \E a \in Unroutable : Fields(line)[5] = <<a>>

EndOfCandidates(line) == line # <<>> /\ line[1] = "a=end-of-candidates"

TrickleLine(line) == line = <<"a=ice-options:trickle">>

\* the set of the lines of an SDP
AllLines(sdpStr) == {LinesOf(sdpStr)[j] : j \in 1..Len(LinesOf(sdpStr))}

\* C25: the answer for Wowza is, line for line and in order, the
\* marshalled answer without its candidate lines whose address is RFC
\* 1918, loopback, link-local or not IPv4 and without its
\* a=end-of-candidates lines (the trickle option, which is added after the
\* filter, left aside); every other line is there, unmodified.
C25_FilterKeepsTheRest ==
  \A w \in Workers :
    HasAnswerForWowza(w) =>
      /\ SelectSeq(Split(wk[w].answerForWowza, "\r\n"), LAMBDA l : ~TrickleLine(l))
           = SelectSeq(Split(Marshalled(w), "\r\n"),
                       LAMBDA l : ~UnroutableCandidate(l) /\ ~EndOfCandidates(l)
                                  /\ ~TrickleLine(l))
      /\ Split(filterPrivateIPs(Marshalled(w)), "\r\n")
           = SelectSeq(Split(Marshalled(w), "\r\n"),
                       LAMBDA l : ~UnroutableCandidate(l) /\ ~EndOfCandidates(l))

\* C25: an answer for Wowza made for a client with candidates of every
\* kind of address: the marshalled answer had the 192.168.1.5 and the IPv6
\* candidate and a=end-of-candidates, the answer has none of them and has
\* the 5.6.7.8 candidate and the one with a name for address
C25_PrivateDroppedPublicKept ==
  \E w \in Workers :
    /\ HasAnswerForWowza(w)
    /\ wk[w].offer = ManyCandidatesOffer
    /\ LET in == AllLines(Marshalled(w))
           out == AllLines(wk[w].answerForWowza)
       IN /\ \E l \in in : UnroutableCandidate(l) /\ Fields(l)[5] = <<"192.168.1.5">>
          /\ \E l \in in : UnroutableCandidate(l) /\ Fields(l)[5] = <<"2001:db8::7">>
          /\ \E l \in in : EndOfCandidates(l)
          /\ \A l \in out : ~UnroutableCandidate(l) /\ ~EndOfCandidates(l)
          /\ \E l \in out : l[1] = "a=candidate:" /\ Fields(l)[5] = <<"5.6.7.8">>
          /\ \E l \in out : l[1] = "a=candidate:" /\ Fields(l)[5] = <<"abcd.local">>

\* the two candidate lines of the private-address scenario
PrivateCandidateLine ==
  <<"a=candidate:", "1", " ", "1", " ", "UDP", " ", "100", " ", "10.0.0.1", " ", "9", " ",
    "typ", " ", "host">>

PublicCandidateLine ==
  <<"a=candidate:", "2", " ", "1", " ", "UDP", " ", "100", " ", "93.184.216.34", " ", "9", " ",
    "typ", " ", "host">>

\* worker w holds an answer for an offer of Wowza with both candidates
AnsweredTwoCandidates(w) ==
  /\ HasAnswerForWowza(w)
  /\ {PrivateCandidateLine, PublicCandidateLine} \subseteq AllLines(wk[w].wowzaOffer)

\* the candidate lines among a set of lines
CandidateLines(ls) == {l \in ls : l[1] = "a=candidate:"}

TricklePositions(ls) == {i \in 1..Len(ls) : TrickleLine(ls[i])}

UfragPositions(ls) == {i \in 1..Len(ls) : ls[i][1] = "a=ice-ufrag:"}

\* the first of a non-empty set of positions
FirstOf(positions) == CHOOSE i \in positions : \A j \in positions : i <= j

\* C27 as the specification states it: the Wowza-facing answer, the output
\* of addTrickleICE, has exactly one a=ice-options:trickle line and that
\* line immediately follows the first a=ice-ufrag line.
C27_OneTrickleAfterUfrag ==
  \A w \in Workers :
    HasAnswerForWowza(w) =>
      LET ls == LinesOf(wk[w].answerForWowza) IN
      /\ Cardinality(TricklePositions(ls)) = 1
      /\ UfragPositions(ls) # {}
      /\ TricklePositions(ls) = {FirstOf(UfragPositions(ls)) + 1}

\* C27: Wowza's offer has a=ice-options:trickle after the a=ice-pwd of each
\* of its two sections: the answer has two such lines and none of them
\* follows an a=ice-ufrag line
C27_TwoTrickleLines ==
  \E w \in Workers :
    /\ HasAnswerForWowza(w)
    /\ wk[w].wowzaOffer = TrickleOffer
    /\ LET ls == LinesOf(wk[w].answerForWowza) IN
       /\ Cardinality(TricklePositions(ls)) = 2
       /\ \A i \in TricklePositions(ls) : ls[i - 1][1] = "a=ice-pwd:"

\* the offer of Wowza has no a=fingerprint line with a value, at no level
NoFingerprint(wO) ==
  \A l \in AllLines(wO) : l[1] = "a=fingerprint:" => Len(l) = 1

\* the Negotiate of worker w has read both answers of Wowza with a status
\* in 200..299, so that it has called CreateAnswerForClient
CalledCreateAnswerForClient(w) ==
  /\ wk[w].pc \in {"returned", "done"}
  /\ wk[w].sessionID \in DOMAIN heap
  /\ LET fs == SessionOf(w).frames IN
     /\ Len(fs) = 4
     /\ fs[4].dir = "read" /\ ~NonOK(fs[4].resp)

\* C28: when the offer of Wowza has no fingerprint, CreateAnswerForClient
\* returns the error "wowza offer missing fingerprint" and no SDP, Negotiate
\* fails with it, and the create is answered 502 "signaling failed" with the
\* session out of the registry; and every client-facing answer carries, in
\* each media section, a fingerprint line with a value that is Wowza's.
C28_MissingFingerprintFails ==
  /\ \A w \in Workers :
       (CalledCreateAnswerForClient(w) /\ NoFingerprint(wk[w].wowzaOffer)) =>
         /\ wk[w].answer = <<>>
         /\ wk[w].err = <<"create answer for client: ", "wowza offer missing fingerprint">>
         /\ wk[w].pc = "done" =>
              /\ wk[w].resp.status = StatusBadGateway
              /\ wk[w].resp.msg = Str("signaling failed")
              /\ wk[w].resp.answer = <<>>
              /\ wk[w].sessionID \notin sessions
  /\ \A w \in Workers :
       wk[w].answer # <<>> =>
         LET ls == LinesOf(wk[w].answer) IN
         /\ ~NoFingerprint(wk[w].wowzaOffer)
         /\ MediaStarts(ls) # {}
         /\ \A i \in MediaStarts(ls) :
              \E l \in SectionLines(ls, i) :
                /\ l[1] = "a=fingerprint:" /\ Len(l) > 1
                /\ Tail(l) \in ValuesOf(wk[w].wowzaOffer, "a=fingerprint:")

\* C28: Wowza answered getOffer and sendResponse with status 200 and an
\* offer without a fingerprint, and the create was answered 502
\* "signaling failed"
C28_AnsweredSignalingFailed ==
  \E w \in Workers :
    /\ CalledCreateAnswerForClient(w)
    /\ wk[w].wowzaOffer = NoFingerprintOffer
    /\ wk[w].pc = "done"
    /\ wk[w].resp.status = StatusBadGateway
    /\ wk[w].resp.msg = Str("signaling failed")
    /\ wk[w].sessionID \notin sessions

\* C29 as the specification states it: from the start of Negotiate to its
\* return no more than one WsTimeout passes, the dial and the four frame
\* operations together.
C29_WithinOneWsTimeout ==
  \A w \in Workers :
    (InNegotiate(w) \/ wk[w].pc = "returned") => wk[w].clock <= WsTimeout

\* C29: a Negotiate whose dial took the whole HandshakeTimeout and whose
\* read of the offer timed out returned one and a half WsTimeout after it
\* began
C29_ReturnedAfterDialPlusWsTimeout ==
  \E w \in Workers :
    /\ wk[w].pc = "returned"
    /\ wk[w].err = <<"read getOffer response: ", "read tcp: i/o timeout">>
    /\ wk[w].deadline = HandshakeTimeout + WsTimeout
    /\ wk[w].clock = HandshakeTimeout + WsTimeout
    /\ wk[w].clock > WsTimeout

\* C30: every Negotiate returns, whether or not Wowza ever answers the
\* dial, getOffer or sendResponse, because every wait ends at its time
\* limit; so every create that has begun its Negotiate is answered, and
\* every session whose Negotiate failed is taken out of the registry.
C30_EveryNegotiateReturns ==
  \A w \in Workers :
    /\ InNegotiate(w) ~> wk[w].pc = "returned"
    /\ InNegotiate(w) ~> wk[w].pc = "done"
    /\ (wk[w].pc = "returned" /\ wk[w].err # <<>>) ~>
         (wk[w].pc = "done" /\ wk[w].resp.status = StatusBadGateway
            /\ wk[w].sessionID \notin sessions)

\* C30: Wowza accepted the dial and never answered getOffer; the read ended
\* at the deadline and the create was answered 502 with the session out of
\* the registry
C30_NeverAnsweredThenAnswered502 ==
  \E w \in Workers :
    /\ wk[w].pc = "done"
    /\ wk[w].err = <<"read getOffer response: ", "read tcp: i/o timeout">>
    /\ wk[w].clock = wk[w].deadline
    /\ Len(SessionOf(w).frames) = 1
    /\ wk[w].resp.status = StatusBadGateway
    /\ wk[w].sessionID \notin sessions

\* the Negotiate of session s has returned: it has dialed and holds no open
\* WebSocket
NegotiateOver(s) == s.dials > 0 /\ s.conn # "open"

\* the frame before a sendResponse is a 2xx answer to getOffer with an SDP
AfterGoodOffer(fs, i) ==
  /\ i > 1
  /\ fs[i - 1].dir = "read" /\ fs[i - 1].command = "getOffer"
  /\ ~NonOK(fs[i - 1].resp)
  /\ fs[i - 1].resp.sdp # <<>>

\* C31: every session is negotiated once: its Wowza is dialed at most once,
\* getOffer and sendResponse are each sent at most once, sendResponse only
\* right after a 2xx answer to getOffer with a non-empty SDP, never two
\* workers negotiate one session, and once its Negotiate has returned, with
\* an answer or an error, nothing more is dialed, sent or read for it.
C31_NothingRetried ==
  /\ [](\A id \in DOMAIN heap :
          LET fs == heap[id].frames IN
          /\ heap[id].dials <= 1
          /\ Len(FramesOf(fs, "write", "getOffer")) <= 1
          /\ Len(FramesOf(fs, "write", "sendResponse")) <= 1
          /\ fs # <<>> => heap[id].dials = 1
          /\ \A i \in 1..Len(fs) :
               (fs[i].dir = "write" /\ fs[i].command = "sendResponse") => AfterGoodOffer(fs, i)
          /\ Cardinality({w \in Workers : wk[w].sessionID = id /\ InNegotiate(w)}) <= 1)
  /\ [][\A id \in DOMAIN heap :
          NegotiateOver(heap[id]) =>
            /\ heap'[id].frames = heap[id].frames
            /\ heap'[id].dials = heap[id].dials
            /\ heap'[id].conn = heap[id].conn
            /\ \A w \in Workers : wk'[w].sessionID = id => ~InNegotiate(w)']_vars

\* C31: Wowza refused getOffer; the create was answered 502 and the session
\* has one dial, one getOffer and no sendResponse
C31_RefusedAndLeftAlone ==
  \E w \in Workers :
    /\ wk[w].pc = "done"
    /\ wk[w].resp.status = StatusBadGateway
    /\ LET s == SessionOf(w) IN
       /\ s.dials = 1
       /\ Len(s.frames) = 2
       /\ NonOK(s.frames[2].resp)
       /\ FramesOf(s.frames, "write", "sendResponse") = <<>>

\* the Negotiate of the registered session id has returned an answer: it is
\* over and no handler holds an error of it
Negotiated(id) ==
  /\ id \in sessions
  /\ NegotiateOver(heap[id])
  /\ ~\E w \in Workers : wk[w].sessionID = id /\ wk[w].req.method = "POST" /\ wk[w].err # <<>>

\* this step is the Manager.Remove of a DELETE whose path names id
DeleteOf(id) ==
  \E w \in Workers :
    /\ wk[w].pc = "remove" /\ wk'[w].pc = "done"
    /\ wk[w].req.method = "DELETE"
    /\ wk[w].sessionID = id
    /\ HasSuffix(wk[w].req.path, id)

\* this step is the snapshot of Manager.Shutdown, which takes id
ShutdownOf(id) == shut.pc = "mgrShutdown" /\ shut'.pc = "snapshot" /\ id \in shut'.snapshot

FramesBefore(pc) ==
  CASE pc = "dial" -> 0
    [] pc = "getOffer" -> 0
    [] pc = "readOffer" -> 1
    [] pc = "sendResponse" -> 2
    [] pc = "readCandidates" -> 3

\* the Negotiate of worker w stands where its frames say, its WebSocket
\* open once dialed
OnCourse(w) ==
  LET s == SessionOf(w) IN
  /\ Len(s.frames) = FramesBefore(wk[w].pc)
  /\ s.conn = IF wk[w].pc = "dial" THEN "none" ELSE "open"
  /\ wk[w].err = <<>>

\* what a Negotiate works on: the WebSocket of the session and what went
\* over it
Exchange(id) ==
  [conn |-> heap[id].conn, frames |-> heap[id].frames, dials |-> heap[id].dials,
   wowzaSessionID |-> heap[id].wowzaSessionID]

\* C33: a Manager.Remove, a Manager.Shutdown or a Session.Stop of a session
\* whose Negotiate is running leaves the Negotiate where it is, with its
\* WebSocket open and its frames as they are, so that its next call is the
\* one it would have made, whether or not the session is registered or
\* stopped; and the create is answered 201 with the answer of the Negotiate
\* or 502 for its error, whatever has happened to the session.
C33_StopDoesNotCancel ==
  /\ [](\A w \in Workers :
          /\ InNegotiate(w) => OnCourse(w)
          /\ (wk[w].pc = "done" /\ wk[w].req.method = "POST" /\ wk[w].sessionID # <<>>) =>
               IF wk[w].err = <<>>
               THEN wk[w].resp.status = StatusCreated /\ wk[w].resp.answer = wk[w].answer
               ELSE wk[w].resp.status = StatusBadGateway)
  /\ [][\A w \in Workers :
          (InNegotiate(w) /\ wk'[w] = wk[w]) =>
             LET id == wk[w].sessionID IN
             [conn |-> heap'[id].conn, frames |-> heap'[id].frames, dials |-> heap'[id].dials,
              wowzaSessionID |-> heap'[id].wowzaSessionID] = Exchange(id)]_vars

\* C33: a session was taken by Manager.Shutdown and stopped while its
\* Negotiate was waiting for the answer to sendResponse, its WebSocket open
C33_StoppedInFlight ==
  \E w \in Workers :
    /\ wk[w].pc = "readCandidates"
    /\ wk[w].sessionID \in shut.snapshot
    /\ SessionOf(w).stopped
    /\ SessionOf(w).conn = "open"
    /\ Len(SessionOf(w).frames) = 3

\* C34: Manager.mu is held only inside a section of Create, Remove,
\* onSessionStopped or Shutdown or right after it: never by a worker whose
\* Negotiate has dialed, never by Manager.Shutdown once it starts its
\* goroutines or waits for them, by a goroutine of Session.Stop only in its
\* callback.  So nothing waits for ever: every held lock is released, every
\* Session.Stop that was started returns, its callback run under the lock,
\* every request taken up is answered, and Server.Stop returns.
C34_NoDeadlock ==
  /\ [](/\ \A w \in Workers :
             Holds(WorkerHolder(w)) =>
               /\ wk[w].pc \in {"body", "dial", "remove", "returned", "done"}
               /\ wk[w].pc = "dial" => SessionOf(w).dials = 0
        /\ Holds(ShutdownHolder) => shut.pc \in {"mgrShutdown", "snapshot"}
        /\ shut.pc = "wait" => ~Holds(ShutdownHolder)
        /\ \A id \in DOMAIN heap, g \in StopGoroutines :
             Holds(StopHolder(id, g)) => heap[id][g] \in {"callback", "returned"})
  /\ (shut.mu # NoLock) ~> (shut.mu = NoLock)
  /\ \A id \in LockIDs, g \in StopGoroutines :
       (id \in DOMAIN heap /\ heap[id][g] \in {"go", "callback"})
         ~> (id \in DOMAIN heap /\ heap[id][g] = "returned" /\ id \notin sessions)
  /\ \A w \in Workers : (wk[w].pc # "idle") ~> (wk[w].pc = "idle")
  /\ (shut.pc = "httpShutdown") ~> (shut.pc = "returned")

\* C34: the callback of a Session.Stop holds Manager.mu to delete the id
\* while the Negotiate of that session is still talking to Wowza
C34_CallbackLockedDuringNegotiate ==
  \E id \in DOMAIN heap, g \in StopGoroutines, w \in Workers :
    /\ heap[id][g] = "callback"
    /\ Holding(StopHolder(id, g))
    /\ wk[w].sessionID = id
    /\ InNegotiate(w)
    /\ heap[id].dials > 0

\* C35: every load Session.Stats makes of wowzaSessionID for GET /stats
\* comes while no Negotiate is storing the field, and gives a string that
\* was stored whole
C35_NoLoadDuringStore ==
  \A w \in Workers :
    \A id \in DOMAIN wk[w].stats :
      /\ ~wk[w].stats[id].during
      /\ wk[w].stats[id].value # Torn

\* C35: GET /stats has loaded the wowzaSessionID of a session while the
\* Negotiate of that session, in another worker, is in the middle of its
\* store
C35_LoadedDuringStore ==
  \E w \in Workers, v \in Workers :
    /\ w # v
    /\ wk[w].pc = "done"
    /\ wk[v].pc = "storeID"
    /\ wk[v].sessionID \in DOMAIN wk[w].stats
    /\ wk[w].stats[wk[v].sessionID].during
    /\ wk[v].sessionID \in sessions

\* C36: no session of the registry is marked stopped; the step that sets
\* the stopped flag of a session, and the step that runs its stop
\* callback, find its id already out of the registry, on the DELETE path,
\* after a failed Negotiate and in Manager.Shutdown; the callback leaves
\* the registry as it finds it, so it removes no other session.
C36_DeletedBeforeStopped ==
  /\ [](\A id \in sessions : ~heap[id].stopped /\ heap[id].callbacks = 0)
  /\ [][\A id \in DOMAIN heap :
          /\ (heap'[id].stopped /\ ~heap[id].stopped) => id \notin sessions
          /\ heap'[id].callbacks # heap[id].callbacks =>
               /\ id \notin sessions
               /\ heap[id].stopped
               /\ sessions' = sessions]_vars

\* C36: the stop callback of a session has run while another session is in
\* the registry, and that session is still there
C36_CallbackLeftOtherSession ==
  \E id \in DOMAIN heap, other \in sessions :
    /\ other # id
    /\ heap[id].callbacks = 1
    /\ heap[id].stopped
    /\ id \notin sessions

\* the error of Negotiate names the missing fingerprint
MissingFingerprint(err) ==
  err # <<>> /\ err[Len(err)] = "wowza offer missing fingerprint"

\* C37: a Negotiate that fails for the missing fingerprint of Wowza has by
\* then written getOffer, read the offer, written sendResponse with an
\* answer whose credential lines, one for each kind the offer of Wowza has,
\* carry the values of the client, and read the answer of Wowza to it with
\* a status in 200..299: the error comes from CreateAnswerForClient, the
\* last step
C37_FingerprintCheckedLast ==
  \A w \in Workers :
    MissingFingerprint(wk[w].err) =>
      /\ wk[w].err = <<"create answer for client: ", "wowza offer missing fingerprint">>
      /\ NoFingerprint(wk[w].wowzaOffer)
      /\ LET fs == SessionOf(w).frames IN
         /\ Len(fs) = 4
         /\ fs[2].dir = "read" /\ fs[2].command = "getOffer"
         /\ fs[2].resp.sdp = wk[w].wowzaOffer
         /\ fs[3].dir = "write" /\ fs[3].command = "sendResponse"
         /\ fs[4].dir = "read" /\ fs[4].command = "sendResponse"
         /\ ~NonOK(fs[4].resp)
      /\ \A key \in {"a=ice-ufrag:", "a=ice-pwd:", "a=fingerprint:"} :
           /\ ValuesOf(wk[w].answerForWowza, key) \subseteq ValuesOf(wk[w].offer, key)
           /\ ValuesOf(wk[w].wowzaOffer, key) # {} =>
                ValuesOf(wk[w].answerForWowza, key) # {}

\* C37: Negotiate returned the missing-fingerprint error after four frames
\* with Wowza, whose offer was the one without a fingerprint
C37_FailedAfterSendResponse ==
  \E w \in Workers :
    /\ wk[w].pc = "returned"
    /\ MissingFingerprint(wk[w].err)
    /\ wk[w].wowzaOffer = NoFingerprintOffer
    /\ Len(SessionOf(w).frames) = 4
    /\ ValuesOf(wk[w].answerForWowza, "a=ice-ufrag:") = ValuesOf(wk[w].offer, "a=ice-ufrag:")
    /\ SessionOf(w).conn = "closed"

\* a request under /whep/ whose last path segment begins with "session-"
EndsInSessionID(r) ==
  /\ HasPrefix(r.path, <<"/", "whep", "/">>)
  /\ HasPrefix(LastSegment(r), <<"session-">>)

\* the request worker w takes goes to handleSessionOp with its last path
\* segment, which alone decides: 404 when it is no registered id, else the
\* Remove of a DELETE, the answer of handleICECandidate to a PATCH, 405 to
\* any other method; it is no create
ActsOnLastSegment(w) ==
  LET r == wk'[w].req
      id == LastSegment(r)
  IN /\ withCORS(cfg, r).kind = "sessionOp"
     /\ withCORS(cfg, r).sessionID = id
     /\ wk'[w].pc # "body"
     /\ uuids' = uuids
     /\ IF id \notin sessions
        THEN UnknownIs404(w) /\ wk'[w].resp.msg = Str("session not found")
        ELSE CASE r.method = "DELETE" -> wk'[w].pc = "remove" /\ wk'[w].sessionID = id
               [] r.method = "PATCH" ->
                    /\ wk'[w].pc = "done"
                    /\ wk'[w].resp = handleICECandidate(r, heap[id]).resp
               [] OTHER ->
                    /\ wk'[w].pc = "done"
                    /\ wk'[w].resp.status = StatusMethodNotAllowed

PassedAllowList(w) ==
  /\ wk[w].pc # "idle"
  /\ DynamicCreate(wk[w].req)
  /\ ~(wk[w].pc = "done" /\ wk[w].resp.status = StatusForbidden)

\* C39 as the specification states it: under an allow-list that is neither
\* empty nor "*", IsHostAllowed lets a host through only if the host equals
\* an entry of the list or ends in the suffix of one of its "*." entries;
\* an empty entry allows nothing.
C39_AllowedOnlyIfListed ==
  \A w \in Workers :
    (PassedAllowList(w) /\ ~AllowAll(cfg.AllowedHosts)) =>
      /\ IsHostAllowed(cfg, HostOf(wk[w].req))
      /\ \E p \in Entries(cfg.AllowedHosts) \ {<<>>} :
           \/ p = ToLower(HostOf(wk[w].req))
           \/ HasPrefix(p, <<"*", ".">>) /\ HasSuffix(ToLower(HostOf(wk[w].req)), Tail(p))

\* C39: under the allow-list "w.example,", whose second entry is empty,
\* the create for example.com, which no entry names, has passed
\* IsHostAllowed and handleCreate reads its body
C39_EmptyEntryAllows ==
  \E w \in Workers :
    /\ cfg.AllowedHosts = <<"w", ".", "example", ",">>
    /\ <<>> \in Entries(cfg.AllowedHosts)
    /\ wk[w].req = Request("POST", CloudPath(<<"example", ".", "com">>), SdpCT, ClientOffer)
    /\ PassedAllowList(w)
    /\ wk[w].pc = "body"

====
